---------------------------- MODULE Spec2Model ----------------------------
(***************************************************************************)
(* Query-resolution pipeline of the seller-analytics assistant:            *)
(*   label_normalizer -> date calculation -> extractor_evaluator           *)
(*   -> (retry | classifier) -> handler.                                   *)
(*                                                                         *)
(* Encoding of Python values:                                              *)
(*   - the AgentState dict is a function from key strings to values; a key *)
(*     that was never written is outside its DOMAIN;                       *)
(*   - an Optional value is a sequence of length <= 1: None is <<>> and a  *)
(*     present value v is <<v>>;                                           *)
(*   - text that the code inspects character by character (the question,   *)
(*     an ASIN, a model answer, a feedback) is the sequence of its Unicode *)
(*     code points;                                                        *)
(*   - an ISO date string "YYYY-MM-DD" is the triple <<Y, M, D>>, the      *)
(*     empty string is <<>>.                                               *)
(***************************************************************************)
EXTENDS Integers, Sequences, FiniteSets, TLC

VARIABLES
    state,             \* the AgentState threaded through the graph
    pc,                \* the graph node that runs next
    clock,             \* the wall clock of the request: [utc |-> ordinal, pst |-> ordinal]
    last,              \* what the last executed node did
    normalizer_calls,  \* number of label_normalizer invocations so far
    llm_calls,         \* number of model calls issued by the classifier
    answer,            \* the content the classifier's model call answered, if it answered
    call,              \* a function called on its own: its arguments and, once made, its result
    _current_state     \* the module-level _current_state of each handler module that has one

vars == <<state, pc, clock, last, normalizer_calls, llm_calls, answer, call, _current_state>>

-----------------------------------------------------------------------------
(* Bounds                                                                  *)

MaxCalls == 5          \* normalizer_calls saturates here

-----------------------------------------------------------------------------
(* Python values                                                           *)

None == <<>>
Some(v) == <<v>>
Val(o) == o[1]

\* dict.get(k) and dict.get(k, d)
Get(s, k) == IF k \in DOMAIN s THEN s[k] ELSE None
GetD(s, k, d) == IF k \in DOMAIN s THEN s[k] ELSE d
\* s[k] = v
Set(s, k, v) == (k :> v) @@ s

\* truthiness of Optional[bool], Optional[int], Optional[sequence-like]
TruthyBool(o) == o # None /\ Val(o) = TRUE
TruthyInt(o) == o # None /\ Val(o) # 0
TruthySeq(o) == o # None /\ Val(o) # <<>>
TruthyStr(o) == o # None /\ Val(o) # ""

Min(a, b) == IF a <= b THEN a ELSE b


-----------------------------------------------------------------------------
(* Calendar arithmetic of datetime.date (proleptic Gregorian ordinals)     *)

IsLeap(y) == (y % 4 = 0) /\ ((y % 100 # 0) \/ (y % 400 = 0))

\* calendar.monthrange(y, m)[1]
DaysInMonth(y, m) ==
    IF m = 2 THEN (IF IsLeap(y) THEN 29 ELSE 28)
    ELSE IF m \in {4, 6, 9, 11} THEN 30 ELSE 31

DaysBeforeYear(y) == (y - 1) * 365 + ((y - 1) \div 4) - ((y - 1) \div 100) + ((y - 1) \div 400)

\* days of the year y before the first day of month m
DaysBeforeMonth(y, m) ==
    <<0, 31, 59, 90, 120, 151, 181, 212, 243, 273, 304, 334>>[m]
    + (IF m > 2 /\ IsLeap(y) THEN 1 ELSE 0)

\* a triple that names a real calendar day (what strptime / date.replace accept)
IsValidDate(t) ==
    /\ Len(t) = 3
    /\ t[1] >= 1 /\ t[1] <= 9999
    /\ t[2] \in 1..12
    /\ t[3] >= 1 /\ t[3] <= DaysInMonth(t[1], t[2])

\* date.toordinal()
ToOrdinal(t) == DaysBeforeYear(t[1]) + DaysBeforeMonth(t[1], t[2]) + t[3]

\* date.fromordinal(n), the result of date +/- timedelta
YearOf(n) == CHOOSE y \in ((n \div 366) - 1)..((n \div 365) + 1) :
                 DaysBeforeYear(y) < n /\ n <= DaysBeforeYear(y + 1)
MonthOf(n) == LET y == YearOf(n)
                  r == n - DaysBeforeYear(y)
              IN CHOOSE m \in 1..12 :
                     DaysBeforeMonth(y, m) < r /\ r <= DaysBeforeMonth(y, m) + DaysInMonth(y, m)
FromOrdinal(n) == LET y == YearOf(n)
                      m == MonthOf(n)
                  IN <<y, m, n - DaysBeforeYear(y) - DaysBeforeMonth(y, m)>>

\* date.weekday(): Monday is 0
Weekday(n) == (n + 6) % 7

\* date.strftime("%Y-%m-%d") of the date with ordinal n
Iso(n) == FromOrdinal(n)

-----------------------------------------------------------------------------
(* Date label vocabulary and DateCalculator                                *)

MonthLabels == <<"january", "february", "march", "april", "may", "june", "july",
                 "august", "september", "october", "november", "december">>

\* DateLabelLiteral: the closed vocabulary
DateLabelLiteral ==
    {"today", "yesterday", "this_week", "last_week", "this_month", "mtd", "last_month",
     "this_year", "last_year", "ytd",
     "past_7_days", "past_14_days", "past_30_days", "past_60_days", "past_90_days",
     "past_180_days", "past_days"}
    \cup {MonthLabels[i] : i \in 1..12}
    \cup {"q1", "q2", "q3", "q4", "explicit_date", "default"}

\* the two results of a call: a returned pair, or a raised exception
\* (ValueError of calculate, OverflowError of date arithmetic)
Pair(a, b) == [ok |-> TRUE, start |-> a, end |-> b]
Raised == [ok |-> FALSE]

\* date.min and date.max; date +/- timedelta raises OverflowError outside them
DateMin == <<1, 1, 1>>
DateMax == <<9999, 12, 31>>
IsDateOrdinal(n) == n >= ToOrdinal(DateMin) /\ n <= ToOrdinal(DateMax)

\* the pair of strftime results of two dates that date arithmetic produced
DatePair(a, b) ==
    IF IsDateOrdinal(a) /\ IsDateOrdinal(b) THEN Pair(Iso(a), Iso(b)) ELSE Raised

_today(cur) == Pair(Iso(cur), Iso(cur))

_yesterday(cur) == DatePair(cur - 1, cur - 1)

\* a variant that counts the days before the anchor and leaves the anchor's own day out
_past_x_days_Exclusive(cur, days) == DatePair(cur - days, cur)

_past_x_days(cur, days) == DatePair(cur - (days - 1), cur)

_this_week(cur) ==
    LET monday == cur - Weekday(cur)
        sunday == monday + 6
    IN DatePair(monday, sunday)

\* a variant that goes back one week more
_last_week_TwoWeeksBack(cur) ==
    LET last_monday == cur - (Weekday(cur) + 14)
        last_sunday == last_monday + 6
    IN DatePair(last_monday, last_sunday)

_last_week(cur) ==
    LET last_monday == cur - (Weekday(cur) + 7)
        last_sunday == last_monday + 6
    IN DatePair(last_monday, last_sunday)

\* a variant that stops at the anchor date
_this_month_ToDate(cur) ==
    LET d == FromOrdinal(cur)
    IN Pair(<<d[1], d[2], 1>>, Iso(cur))

_this_month(cur) ==
    LET d == FromOrdinal(cur)
        last_day == DaysInMonth(d[1], d[2])
    IN Pair(<<d[1], d[2], 1>>, <<d[1], d[2], last_day>>)

_mtd(cur) ==
    LET d == FromOrdinal(cur)
    IN Pair(<<d[1], d[2], 1>>, Iso(cur))

_last_month(cur) ==
    LET d == FromOrdinal(cur)
        first_this_month == ToOrdinal(<<d[1], d[2], 1>>)
        last_day_last_month == first_this_month - 1
    IN IF ~IsDateOrdinal(last_day_last_month) THEN Raised
       ELSE LET l == FromOrdinal(last_day_last_month)
            IN Pair(<<l[1], l[2], 1>>, Iso(last_day_last_month))

_this_year(cur) ==
    LET d == FromOrdinal(cur)
    IN Pair(<<d[1], 1, 1>>, Iso(cur))

_last_year(cur) ==
    LET year == FromOrdinal(cur)[1] - 1
    IN Pair(<<year, 1, 1>>, <<year, 12, 31>>)

_ytd(cur) == _this_year(cur)

_month_range(cur, month) ==
    LET year == FromOrdinal(cur)[1]
        last_day == DaysInMonth(year, month)
    IN Pair(<<year, month, 1>>, <<year, month, last_day>>)

MonthNumber(label) == CHOOSE i \in 1..12 : MonthLabels[i] = label

\* a variant whose default range is thirty days
calculate_Default30(cur, label, explicit_date, custom_days) ==
    IF label = "explicit_date"
    THEN IF ~TruthySeq(explicit_date) THEN Raised
         ELSE Pair(Val(explicit_date), Val(explicit_date))
    ELSE IF label = "past_days"
    THEN IF ~TruthyInt(custom_days) \/ Val(custom_days) <= 0 THEN Raised
         ELSE _past_x_days(cur, Val(custom_days))
    ELSE CASE label = "today" -> _today(cur)
           [] label = "yesterday" -> _yesterday(cur)
           [] label = "this_week" -> _this_week(cur)
           [] label = "last_week" -> _last_week(cur)
           [] label = "this_month" -> _this_month(cur)
           [] label = "mtd" -> _mtd(cur)
           [] label = "last_month" -> _last_month(cur)
           [] label = "this_year" -> _this_year(cur)
           [] label = "last_year" -> _last_year(cur)
           [] label = "ytd" -> _ytd(cur)
           [] label = "past_7_days" -> _past_x_days(cur, 7)
           [] label = "past_14_days" -> _past_x_days(cur, 14)
           [] label = "past_30_days" -> _past_x_days(cur, 30)
           [] label = "past_60_days" -> _past_x_days(cur, 60)
           [] label = "past_90_days" -> _past_x_days(cur, 90)
           [] label = "past_180_days" -> _past_x_days(cur, 180)
           [] label \in {MonthLabels[i] : i \in 1..12} -> _month_range(cur, MonthNumber(label))
           [] label = "default" -> _past_x_days(cur, 30)
           [] OTHER -> Raised

\* a variant that falls back to seven days when the day count is unusable
calculate_LenientDays(cur, label, explicit_date, custom_days) ==
    IF label = "explicit_date"
    THEN IF ~TruthySeq(explicit_date) THEN Raised
         ELSE Pair(Val(explicit_date), Val(explicit_date))
    ELSE IF label = "past_days"
    THEN IF ~TruthyInt(custom_days) \/ Val(custom_days) <= 0 THEN _past_x_days(cur, 7)
         ELSE _past_x_days(cur, Val(custom_days))
    ELSE CASE label = "today" -> _today(cur)
           [] label = "yesterday" -> _yesterday(cur)
           [] label = "this_week" -> _this_week(cur)
           [] label = "last_week" -> _last_week(cur)
           [] label = "this_month" -> _this_month(cur)
           [] label = "mtd" -> _mtd(cur)
           [] label = "last_month" -> _last_month(cur)
           [] label = "this_year" -> _this_year(cur)
           [] label = "last_year" -> _last_year(cur)
           [] label = "ytd" -> _ytd(cur)
           [] label = "past_7_days" -> _past_x_days(cur, 7)
           [] label = "past_14_days" -> _past_x_days(cur, 14)
           [] label = "past_30_days" -> _past_x_days(cur, 30)
           [] label = "past_60_days" -> _past_x_days(cur, 60)
           [] label = "past_90_days" -> _past_x_days(cur, 90)
           [] label = "past_180_days" -> _past_x_days(cur, 180)
           [] label \in {MonthLabels[i] : i \in 1..12} -> _month_range(cur, MonthNumber(label))
           [] label = "default" -> _past_x_days(cur, 7)
           [] OTHER -> Raised

\* DateCalculator(current_date = cur).calculate(label, explicit_date, custom_days)
calculate(cur, label, explicit_date, custom_days) ==
    IF label = "explicit_date"
    THEN IF ~TruthySeq(explicit_date) THEN Raised
         ELSE Pair(Val(explicit_date), Val(explicit_date))
    ELSE IF label = "past_days"
    THEN IF ~TruthyInt(custom_days) \/ Val(custom_days) <= 0 THEN Raised
         ELSE _past_x_days(cur, Val(custom_days))
    ELSE CASE label = "today" -> _today(cur)
           [] label = "yesterday" -> _yesterday(cur)
           [] label = "this_week" -> _this_week(cur)
           [] label = "last_week" -> _last_week(cur)
           [] label = "this_month" -> _this_month(cur)
           [] label = "mtd" -> _mtd(cur)
           [] label = "last_month" -> _last_month(cur)
           [] label = "this_year" -> _this_year(cur)
           [] label = "last_year" -> _last_year(cur)
           [] label = "ytd" -> _ytd(cur)
           [] label = "past_7_days" -> _past_x_days(cur, 7)
           [] label = "past_14_days" -> _past_x_days(cur, 14)
           [] label = "past_30_days" -> _past_x_days(cur, 30)
           [] label = "past_60_days" -> _past_x_days(cur, 60)
           [] label = "past_90_days" -> _past_x_days(cur, 90)
           [] label = "past_180_days" -> _past_x_days(cur, 180)
           [] label \in {MonthLabels[i] : i \in 1..12} -> _month_range(cur, MonthNumber(label))
           [] label = "default" -> _past_x_days(cur, 7)
           [] OTHER -> Raised

\* the state date_calculator_node returns, given the results of its calculate calls:
\* p1, p2 for the primary labels, c1, c2 for the comparison labels, and the
\* "default" range its except-branch falls back to
store_dates(s, has_compare, p1, p2, c1, c2, fallback) ==
    IF ~(p1.ok /\ p2.ok)
    THEN \* exception before anything was stored
         Set(Set(Set(Set(s, "date_start", Some(fallback.start)), "date_end", Some(fallback.end)),
                 "compare_date_start", None), "compare_date_end", None)
    ELSE IF ~has_compare
    THEN Set(Set(Set(Set(s, "date_start", Some(p1.start)), "date_end", Some(p2.end)),
                 "compare_date_start", None), "compare_date_end", None)
    ELSE IF ~(c1.ok /\ c2.ok)
    THEN \* exception while resolving the comparison range: the except-branch
         \* overwrites the primary range stored at lines 52-53
         Set(Set(Set(Set(s, "date_start", Some(fallback.start)), "date_end", Some(fallback.end)),
                 "compare_date_start", None), "compare_date_end", None)
    ELSE Set(Set(Set(Set(s, "date_start", Some(p1.start)), "date_end", Some(p2.end)),
                 "compare_date_start", Some(c1.start)), "compare_date_end", Some(c2.end))

\* date_calculator_node(state) with DateCalculator() anchored at the UTC date cur
date_calculator_node(s, cur) ==
    LET date_start_label == Get(s, "_date_start_label")
        date_end_label == Get(s, "_date_end_label")
        compare_start_label == Get(s, "_compare_date_start_label")
        compare_end_label == Get(s, "_compare_date_end_label")
        explicit_start == Get(s, "_explicit_date_start")
        explicit_end == Get(s, "_explicit_date_end")
        explicit_compare_start == Get(s, "_explicit_compare_start")
        explicit_compare_end == Get(s, "_explicit_compare_end")
        custom_days == Get(s, "_custom_days_count")
        custom_compare_days == Get(s, "_custom_compare_days_count")
        has_primary == TruthyStr(date_start_label) /\ TruthyStr(date_end_label)
        has_compare == TruthyStr(compare_start_label) /\ TruthyStr(compare_end_label)
        results ==
            {store_dates(s, has_compare, p1, p2, c1, c2, fallback) :
                 p1 \in {IF has_primary
                         THEN calculate(cur, Val(date_start_label), explicit_start, custom_days)
                         ELSE calculate(cur, "default", None, None)},
                 p2 \in {IF has_primary
                         THEN calculate(cur, Val(date_end_label), explicit_end, custom_days)
                         ELSE calculate(cur, "default", None, None)},
                 c1 \in {IF has_compare
                         THEN calculate(cur, Val(compare_start_label), explicit_compare_start,
                                        custom_compare_days)
                         ELSE Raised},
                 c2 \in {IF has_compare
                         THEN calculate(cur, Val(compare_end_label), explicit_compare_end,
                                        custom_compare_days)
                         ELSE Raised},
                 fallback \in {calculate(cur, "default", None, None)}}
    IN CHOOSE out \in results : TRUE

-----------------------------------------------------------------------------
(* Text: str methods and the regular expressions the nodes use             *)

\* A character is its Unicode code point and a str is the tuple of its code
\* points.  The character tables below are those of Python's Unicode database
\* (unicodedata.unidata_version 14.0.0), which str.lower(), str.upper(),
\* str.strip() and the classes \s, \d, \w, \b of the re module consult.

\* ord(c) of the characters a literal is written with (every character of
\* U+0020..U+007E that a string can hold, and the four escapes)
Ord ==
    ("\t" :> 9) @@ ("\n" :> 10) @@ ("\f" :> 12) @@ ("\r" :> 13) @@ (" " :> 32) @@ ("!" :> 33) @@ ("\"" :> 34) @@
    ("#" :> 35) @@ ("$" :> 36) @@ ("%" :> 37) @@ ("&" :> 38) @@ ("'" :> 39) @@ ("(" :> 40) @@ (")" :> 41) @@
    ("*" :> 42) @@ ("+" :> 43) @@ ("," :> 44) @@ ("-" :> 45) @@ ("." :> 46) @@ ("/" :> 47) @@ ("0" :> 48) @@
    ("1" :> 49) @@ ("2" :> 50) @@ ("3" :> 51) @@ ("4" :> 52) @@ ("5" :> 53) @@ ("6" :> 54) @@ ("7" :> 55) @@
    ("8" :> 56) @@ ("9" :> 57) @@ (":" :> 58) @@ (";" :> 59) @@ ("<" :> 60) @@ ("=" :> 61) @@ (">" :> 62) @@
    ("?" :> 63) @@ ("@" :> 64) @@ ("A" :> 65) @@ ("B" :> 66) @@ ("C" :> 67) @@ ("D" :> 68) @@ ("E" :> 69) @@
    ("F" :> 70) @@ ("G" :> 71) @@ ("H" :> 72) @@ ("I" :> 73) @@ ("J" :> 74) @@ ("K" :> 75) @@ ("L" :> 76) @@
    ("M" :> 77) @@ ("N" :> 78) @@ ("O" :> 79) @@ ("P" :> 80) @@ ("Q" :> 81) @@ ("R" :> 82) @@ ("S" :> 83) @@
    ("T" :> 84) @@ ("U" :> 85) @@ ("V" :> 86) @@ ("W" :> 87) @@ ("X" :> 88) @@ ("Y" :> 89) @@ ("Z" :> 90) @@
    ("[" :> 91) @@ ("\\" :> 92) @@ ("]" :> 93) @@ ("^" :> 94) @@ ("_" :> 95) @@ ("a" :> 97) @@ ("b" :> 98) @@
    ("c" :> 99) @@ ("d" :> 100) @@ ("e" :> 101) @@ ("f" :> 102) @@ ("g" :> 103) @@ ("h" :> 104) @@
    ("i" :> 105) @@ ("j" :> 106) @@ ("k" :> 107) @@ ("l" :> 108) @@ ("m" :> 109) @@ ("n" :> 110) @@
    ("o" :> 111) @@ ("p" :> 112) @@ ("q" :> 113) @@ ("r" :> 114) @@ ("s" :> 115) @@ ("t" :> 116) @@
    ("u" :> 117) @@ ("v" :> 118) @@ ("w" :> 119) @@ ("x" :> 120) @@ ("y" :> 121) @@ ("z" :> 122) @@
    ("{" :> 123) @@ ("|" :> 124) @@ ("}" :> 125) @@ ("~" :> 126)

\* a str literal
Text(literal) == [i \in 1..Len(literal) |-> Ord[literal[i]]]

\* membership in a table of code-point ranges <<first, last>>
InRanges(c, table) == \E r \in table : r[1] <= c /\ c <= r[2]

\* the characters str.isspace() holds for, which str.strip() removes and the
\* regular expression class \s matches
Whitespace ==
    {9, 10, 11, 12, 13, 28, 29, 30, 31, 32, 133, 160, 5760, 8192, 8193, 8194, 8195, 8196, 8197,
     8198, 8199, 8200, 8201, 8202, 8232, 8233, 8239, 8287, 12288}

\* the characters the class \w matches (str.isalnum() or "_"), as ranges
WordRanges ==
    {<<48, 57>>, <<65, 90>>, <<95, 95>>, <<97, 122>>, <<170, 170>>, <<178, 179>>, <<181, 181>>,
     <<185, 186>>, <<188, 190>>, <<192, 214>>, <<216, 246>>, <<248, 705>>, <<710, 721>>,
     <<736, 740>>, <<748, 748>>, <<750, 750>>, <<880, 884>>, <<886, 887>>, <<890, 893>>,
     <<895, 895>>, <<902, 902>>, <<904, 906>>, <<908, 908>>, <<910, 929>>, <<931, 1013>>,
     <<1015, 1153>>, <<1162, 1327>>, <<1329, 1366>>, <<1369, 1369>>, <<1376, 1416>>,
     <<1488, 1514>>, <<1519, 1522>>, <<1568, 1610>>, <<1632, 1641>>, <<1646, 1647>>,
     <<1649, 1747>>, <<1749, 1749>>, <<1765, 1766>>, <<1774, 1788>>, <<1791, 1791>>,
     <<1808, 1808>>, <<1810, 1839>>, <<1869, 1957>>, <<1969, 1969>>, <<1984, 2026>>,
     <<2036, 2037>>, <<2042, 2042>>, <<2048, 2069>>, <<2074, 2074>>, <<2084, 2084>>,
     <<2088, 2088>>, <<2112, 2136>>, <<2144, 2154>>, <<2160, 2183>>, <<2185, 2190>>,
     <<2208, 2249>>, <<2308, 2361>>, <<2365, 2365>>, <<2384, 2384>>, <<2392, 2401>>,
     <<2406, 2415>>, <<2417, 2432>>, <<2437, 2444>>, <<2447, 2448>>, <<2451, 2472>>,
     <<2474, 2480>>, <<2482, 2482>>, <<2486, 2489>>, <<2493, 2493>>, <<2510, 2510>>,
     <<2524, 2525>>, <<2527, 2529>>, <<2534, 2545>>, <<2548, 2553>>, <<2556, 2556>>,
     <<2565, 2570>>, <<2575, 2576>>, <<2579, 2600>>, <<2602, 2608>>, <<2610, 2611>>,
     <<2613, 2614>>, <<2616, 2617>>, <<2649, 2652>>, <<2654, 2654>>, <<2662, 2671>>,
     <<2674, 2676>>, <<2693, 2701>>, <<2703, 2705>>, <<2707, 2728>>, <<2730, 2736>>,
     <<2738, 2739>>, <<2741, 2745>>, <<2749, 2749>>, <<2768, 2768>>, <<2784, 2785>>,
     <<2790, 2799>>, <<2809, 2809>>, <<2821, 2828>>, <<2831, 2832>>, <<2835, 2856>>,
     <<2858, 2864>>, <<2866, 2867>>, <<2869, 2873>>, <<2877, 2877>>, <<2908, 2909>>,
     <<2911, 2913>>, <<2918, 2927>>, <<2929, 2935>>, <<2947, 2947>>, <<2949, 2954>>,
     <<2958, 2960>>, <<2962, 2965>>, <<2969, 2970>>, <<2972, 2972>>, <<2974, 2975>>,
     <<2979, 2980>>, <<2984, 2986>>, <<2990, 3001>>, <<3024, 3024>>, <<3046, 3058>>,
     <<3077, 3084>>, <<3086, 3088>>, <<3090, 3112>>, <<3114, 3129>>, <<3133, 3133>>,
     <<3160, 3162>>, <<3165, 3165>>, <<3168, 3169>>, <<3174, 3183>>, <<3192, 3198>>,
     <<3200, 3200>>, <<3205, 3212>>, <<3214, 3216>>, <<3218, 3240>>, <<3242, 3251>>,
     <<3253, 3257>>, <<3261, 3261>>, <<3293, 3294>>, <<3296, 3297>>, <<3302, 3311>>,
     <<3313, 3314>>, <<3332, 3340>>, <<3342, 3344>>, <<3346, 3386>>, <<3389, 3389>>,
     <<3406, 3406>>, <<3412, 3414>>, <<3416, 3425>>, <<3430, 3448>>, <<3450, 3455>>,
     <<3461, 3478>>, <<3482, 3505>>, <<3507, 3515>>, <<3517, 3517>>, <<3520, 3526>>,
     <<3558, 3567>>, <<3585, 3632>>, <<3634, 3635>>, <<3648, 3654>>, <<3664, 3673>>,
     <<3713, 3714>>, <<3716, 3716>>, <<3718, 3722>>, <<3724, 3747>>, <<3749, 3749>>,
     <<3751, 3760>>, <<3762, 3763>>, <<3773, 3773>>, <<3776, 3780>>, <<3782, 3782>>,
     <<3792, 3801>>, <<3804, 3807>>, <<3840, 3840>>, <<3872, 3891>>, <<3904, 3911>>,
     <<3913, 3948>>, <<3976, 3980>>, <<4096, 4138>>, <<4159, 4169>>, <<4176, 4181>>,
     <<4186, 4189>>, <<4193, 4193>>, <<4197, 4198>>, <<4206, 4208>>, <<4213, 4225>>,
     <<4238, 4238>>, <<4240, 4249>>, <<4256, 4293>>, <<4295, 4295>>, <<4301, 4301>>,
     <<4304, 4346>>, <<4348, 4680>>, <<4682, 4685>>, <<4688, 4694>>, <<4696, 4696>>,
     <<4698, 4701>>, <<4704, 4744>>, <<4746, 4749>>, <<4752, 4784>>, <<4786, 4789>>,
     <<4792, 4798>>, <<4800, 4800>>, <<4802, 4805>>, <<4808, 4822>>, <<4824, 4880>>,
     <<4882, 4885>>, <<4888, 4954>>, <<4969, 4988>>, <<4992, 5007>>, <<5024, 5109>>,
     <<5112, 5117>>, <<5121, 5740>>, <<5743, 5759>>, <<5761, 5786>>, <<5792, 5866>>,
     <<5870, 5880>>, <<5888, 5905>>, <<5919, 5937>>, <<5952, 5969>>, <<5984, 5996>>,
     <<5998, 6000>>, <<6016, 6067>>, <<6103, 6103>>, <<6108, 6108>>, <<6112, 6121>>,
     <<6128, 6137>>, <<6160, 6169>>, <<6176, 6264>>, <<6272, 6276>>, <<6279, 6312>>,
     <<6314, 6314>>, <<6320, 6389>>, <<6400, 6430>>, <<6470, 6509>>, <<6512, 6516>>,
     <<6528, 6571>>, <<6576, 6601>>, <<6608, 6618>>, <<6656, 6678>>, <<6688, 6740>>,
     <<6784, 6793>>, <<6800, 6809>>, <<6823, 6823>>, <<6917, 6963>>, <<6981, 6988>>,
     <<6992, 7001>>, <<7043, 7072>>, <<7086, 7141>>, <<7168, 7203>>, <<7232, 7241>>,
     <<7245, 7293>>, <<7296, 7304>>, <<7312, 7354>>, <<7357, 7359>>, <<7401, 7404>>,
     <<7406, 7411>>, <<7413, 7414>>, <<7418, 7418>>, <<7424, 7615>>, <<7680, 7957>>,
     <<7960, 7965>>, <<7968, 8005>>, <<8008, 8013>>, <<8016, 8023>>, <<8025, 8025>>,
     <<8027, 8027>>, <<8029, 8029>>, <<8031, 8061>>, <<8064, 8116>>, <<8118, 8124>>,
     <<8126, 8126>>, <<8130, 8132>>, <<8134, 8140>>, <<8144, 8147>>, <<8150, 8155>>,
     <<8160, 8172>>, <<8178, 8180>>, <<8182, 8188>>, <<8304, 8305>>, <<8308, 8313>>,
     <<8319, 8329>>, <<8336, 8348>>, <<8450, 8450>>, <<8455, 8455>>, <<8458, 8467>>,
     <<8469, 8469>>, <<8473, 8477>>, <<8484, 8484>>, <<8486, 8486>>, <<8488, 8488>>,
     <<8490, 8493>>, <<8495, 8505>>, <<8508, 8511>>, <<8517, 8521>>, <<8526, 8526>>,
     <<8528, 8585>>, <<9312, 9371>>, <<9450, 9471>>, <<10102, 10131>>, <<11264, 11492>>,
     <<11499, 11502>>, <<11506, 11507>>, <<11517, 11517>>, <<11520, 11557>>, <<11559, 11559>>,
     <<11565, 11565>>, <<11568, 11623>>, <<11631, 11631>>, <<11648, 11670>>, <<11680, 11686>>,
     <<11688, 11694>>, <<11696, 11702>>, <<11704, 11710>>, <<11712, 11718>>, <<11720, 11726>>,
     <<11728, 11734>>, <<11736, 11742>>, <<11823, 11823>>, <<12293, 12295>>, <<12321, 12329>>,
     <<12337, 12341>>, <<12344, 12348>>, <<12353, 12438>>, <<12445, 12447>>, <<12449, 12538>>,
     <<12540, 12543>>, <<12549, 12591>>, <<12593, 12686>>, <<12690, 12693>>, <<12704, 12735>>,
     <<12784, 12799>>, <<12832, 12841>>, <<12872, 12879>>, <<12881, 12895>>, <<12928, 12937>>,
     <<12977, 12991>>, <<13312, 19903>>, <<19968, 42124>>, <<42192, 42237>>, <<42240, 42508>>,
     <<42512, 42539>>, <<42560, 42606>>, <<42623, 42653>>, <<42656, 42735>>, <<42775, 42783>>,
     <<42786, 42888>>, <<42891, 42954>>, <<42960, 42961>>, <<42963, 42963>>, <<42965, 42969>>,
     <<42994, 43009>>, <<43011, 43013>>, <<43015, 43018>>, <<43020, 43042>>, <<43056, 43061>>,
     <<43072, 43123>>, <<43138, 43187>>, <<43216, 43225>>, <<43250, 43255>>, <<43259, 43259>>,
     <<43261, 43262>>, <<43264, 43301>>, <<43312, 43334>>, <<43360, 43388>>, <<43396, 43442>>,
     <<43471, 43481>>, <<43488, 43492>>, <<43494, 43518>>, <<43520, 43560>>, <<43584, 43586>>,
     <<43588, 43595>>, <<43600, 43609>>, <<43616, 43638>>, <<43642, 43642>>, <<43646, 43695>>,
     <<43697, 43697>>, <<43701, 43702>>, <<43705, 43709>>, <<43712, 43712>>, <<43714, 43714>>,
     <<43739, 43741>>, <<43744, 43754>>, <<43762, 43764>>, <<43777, 43782>>, <<43785, 43790>>,
     <<43793, 43798>>, <<43808, 43814>>, <<43816, 43822>>, <<43824, 43866>>, <<43868, 43881>>,
     <<43888, 44002>>, <<44016, 44025>>, <<44032, 55203>>, <<55216, 55238>>, <<55243, 55291>>,
     <<63744, 64109>>, <<64112, 64217>>, <<64256, 64262>>, <<64275, 64279>>, <<64285, 64285>>,
     <<64287, 64296>>, <<64298, 64310>>, <<64312, 64316>>, <<64318, 64318>>, <<64320, 64321>>,
     <<64323, 64324>>, <<64326, 64433>>, <<64467, 64829>>, <<64848, 64911>>, <<64914, 64967>>,
     <<65008, 65019>>, <<65136, 65140>>, <<65142, 65276>>, <<65296, 65305>>, <<65313, 65338>>,
     <<65345, 65370>>, <<65382, 65470>>, <<65474, 65479>>, <<65482, 65487>>, <<65490, 65495>>,
     <<65498, 65500>>, <<65536, 65547>>, <<65549, 65574>>, <<65576, 65594>>, <<65596, 65597>>,
     <<65599, 65613>>, <<65616, 65629>>, <<65664, 65786>>, <<65799, 65843>>, <<65856, 65912>>,
     <<65930, 65931>>, <<66176, 66204>>, <<66208, 66256>>, <<66273, 66299>>, <<66304, 66339>>,
     <<66349, 66378>>, <<66384, 66421>>, <<66432, 66461>>, <<66464, 66499>>, <<66504, 66511>>,
     <<66513, 66517>>, <<66560, 66717>>, <<66720, 66729>>, <<66736, 66771>>, <<66776, 66811>>,
     <<66816, 66855>>, <<66864, 66915>>, <<66928, 66938>>, <<66940, 66954>>, <<66956, 66962>>,
     <<66964, 66965>>, <<66967, 66977>>, <<66979, 66993>>, <<66995, 67001>>, <<67003, 67004>>,
     <<67072, 67382>>, <<67392, 67413>>, <<67424, 67431>>, <<67456, 67461>>, <<67463, 67504>>,
     <<67506, 67514>>, <<67584, 67589>>, <<67592, 67592>>, <<67594, 67637>>, <<67639, 67640>>,
     <<67644, 67644>>, <<67647, 67669>>, <<67672, 67702>>, <<67705, 67742>>, <<67751, 67759>>,
     <<67808, 67826>>, <<67828, 67829>>, <<67835, 67867>>, <<67872, 67897>>, <<67968, 68023>>,
     <<68028, 68047>>, <<68050, 68096>>, <<68112, 68115>>, <<68117, 68119>>, <<68121, 68149>>,
     <<68160, 68168>>, <<68192, 68222>>, <<68224, 68255>>, <<68288, 68295>>, <<68297, 68324>>,
     <<68331, 68335>>, <<68352, 68405>>, <<68416, 68437>>, <<68440, 68466>>, <<68472, 68497>>,
     <<68521, 68527>>, <<68608, 68680>>, <<68736, 68786>>, <<68800, 68850>>, <<68858, 68899>>,
     <<68912, 68921>>, <<69216, 69246>>, <<69248, 69289>>, <<69296, 69297>>, <<69376, 69415>>,
     <<69424, 69445>>, <<69457, 69460>>, <<69488, 69505>>, <<69552, 69579>>, <<69600, 69622>>,
     <<69635, 69687>>, <<69714, 69743>>, <<69745, 69746>>, <<69749, 69749>>, <<69763, 69807>>,
     <<69840, 69864>>, <<69872, 69881>>, <<69891, 69926>>, <<69942, 69951>>, <<69956, 69956>>,
     <<69959, 69959>>, <<69968, 70002>>, <<70006, 70006>>, <<70019, 70066>>, <<70081, 70084>>,
     <<70096, 70106>>, <<70108, 70108>>, <<70113, 70132>>, <<70144, 70161>>, <<70163, 70187>>,
     <<70272, 70278>>, <<70280, 70280>>, <<70282, 70285>>, <<70287, 70301>>, <<70303, 70312>>,
     <<70320, 70366>>, <<70384, 70393>>, <<70405, 70412>>, <<70415, 70416>>, <<70419, 70440>>,
     <<70442, 70448>>, <<70450, 70451>>, <<70453, 70457>>, <<70461, 70461>>, <<70480, 70480>>,
     <<70493, 70497>>, <<70656, 70708>>, <<70727, 70730>>, <<70736, 70745>>, <<70751, 70753>>,
     <<70784, 70831>>, <<70852, 70853>>, <<70855, 70855>>, <<70864, 70873>>, <<71040, 71086>>,
     <<71128, 71131>>, <<71168, 71215>>, <<71236, 71236>>, <<71248, 71257>>, <<71296, 71338>>,
     <<71352, 71352>>, <<71360, 71369>>, <<71424, 71450>>, <<71472, 71483>>, <<71488, 71494>>,
     <<71680, 71723>>, <<71840, 71922>>, <<71935, 71942>>, <<71945, 71945>>, <<71948, 71955>>,
     <<71957, 71958>>, <<71960, 71983>>, <<71999, 71999>>, <<72001, 72001>>, <<72016, 72025>>,
     <<72096, 72103>>, <<72106, 72144>>, <<72161, 72161>>, <<72163, 72163>>, <<72192, 72192>>,
     <<72203, 72242>>, <<72250, 72250>>, <<72272, 72272>>, <<72284, 72329>>, <<72349, 72349>>,
     <<72368, 72440>>, <<72704, 72712>>, <<72714, 72750>>, <<72768, 72768>>, <<72784, 72812>>,
     <<72818, 72847>>, <<72960, 72966>>, <<72968, 72969>>, <<72971, 73008>>, <<73030, 73030>>,
     <<73040, 73049>>, <<73056, 73061>>, <<73063, 73064>>, <<73066, 73097>>, <<73112, 73112>>,
     <<73120, 73129>>, <<73440, 73458>>, <<73648, 73648>>, <<73664, 73684>>, <<73728, 74649>>,
     <<74752, 74862>>, <<74880, 75075>>, <<77712, 77808>>, <<77824, 78894>>, <<82944, 83526>>,
     <<92160, 92728>>, <<92736, 92766>>, <<92768, 92777>>, <<92784, 92862>>, <<92864, 92873>>,
     <<92880, 92909>>, <<92928, 92975>>, <<92992, 92995>>, <<93008, 93017>>, <<93019, 93025>>,
     <<93027, 93047>>, <<93053, 93071>>, <<93760, 93846>>, <<93952, 94026>>, <<94032, 94032>>,
     <<94099, 94111>>, <<94176, 94177>>, <<94179, 94179>>, <<94208, 100343>>, <<100352, 101589>>,
     <<101632, 101640>>, <<110576, 110579>>, <<110581, 110587>>, <<110589, 110590>>,
     <<110592, 110882>>, <<110928, 110930>>, <<110948, 110951>>, <<110960, 111355>>,
     <<113664, 113770>>, <<113776, 113788>>, <<113792, 113800>>, <<113808, 113817>>,
     <<119520, 119539>>, <<119648, 119672>>, <<119808, 119892>>, <<119894, 119964>>,
     <<119966, 119967>>, <<119970, 119970>>, <<119973, 119974>>, <<119977, 119980>>,
     <<119982, 119993>>, <<119995, 119995>>, <<119997, 120003>>, <<120005, 120069>>,
     <<120071, 120074>>, <<120077, 120084>>, <<120086, 120092>>, <<120094, 120121>>,
     <<120123, 120126>>, <<120128, 120132>>, <<120134, 120134>>, <<120138, 120144>>,
     <<120146, 120485>>, <<120488, 120512>>, <<120514, 120538>>, <<120540, 120570>>,
     <<120572, 120596>>, <<120598, 120628>>, <<120630, 120654>>, <<120656, 120686>>,
     <<120688, 120712>>, <<120714, 120744>>, <<120746, 120770>>, <<120772, 120779>>,
     <<120782, 120831>>, <<122624, 122654>>, <<123136, 123180>>, <<123191, 123197>>,
     <<123200, 123209>>, <<123214, 123214>>, <<123536, 123565>>, <<123584, 123627>>,
     <<123632, 123641>>, <<124896, 124902>>, <<124904, 124907>>, <<124909, 124910>>,
     <<124912, 124926>>, <<124928, 125124>>, <<125127, 125135>>, <<125184, 125251>>,
     <<125259, 125259>>, <<125264, 125273>>, <<126065, 126123>>, <<126125, 126127>>,
     <<126129, 126132>>, <<126209, 126253>>, <<126255, 126269>>, <<126464, 126467>>,
     <<126469, 126495>>, <<126497, 126498>>, <<126500, 126500>>, <<126503, 126503>>,
     <<126505, 126514>>, <<126516, 126519>>, <<126521, 126521>>, <<126523, 126523>>,
     <<126530, 126530>>, <<126535, 126535>>, <<126537, 126537>>, <<126539, 126539>>,
     <<126541, 126543>>, <<126545, 126546>>, <<126548, 126548>>, <<126551, 126551>>,
     <<126553, 126553>>, <<126555, 126555>>, <<126557, 126557>>, <<126559, 126559>>,
     <<126561, 126562>>, <<126564, 126564>>, <<126567, 126570>>, <<126572, 126578>>,
     <<126580, 126583>>, <<126585, 126588>>, <<126590, 126590>>, <<126592, 126601>>,
     <<126603, 126619>>, <<126625, 126627>>, <<126629, 126633>>, <<126635, 126651>>,
     <<127232, 127244>>, <<130032, 130041>>, <<131072, 173791>>, <<173824, 177976>>,
     <<177984, 178205>>, <<178208, 183969>>, <<183984, 191456>>, <<194560, 195101>>,
     <<196608, 201546>>}
AsciiWordRanges == {r \in WordRanges : r[2] < 128}

\* the characters the class \d matches (decimal digits) come in runs of ten,
\* zero first: the code point of the zero of every run
DigitZeros ==
    {48, 1632, 1776, 1984, 2406, 2534, 2662, 2790, 2918, 3046, 3174, 3302, 3430, 3558, 3664, 3792,
     3872, 4160, 4240, 6112, 6160, 6470, 6608, 6784, 6800, 6992, 7088, 7232, 7248, 42528, 43216,
     43264, 43472, 43504, 43600, 44016, 65296, 66720, 68912, 69734, 69872, 69942, 70096, 70384,
     70736, 70864, 71248, 71360, 71472, 71904, 72016, 72784, 73040, 73120, 92768, 92864, 93008,
     120782, 120792, 120802, 120812, 120822, 123200, 123632, 125264, 130032}
DigitSet == {z + k : z \in DigitZeros, k \in 0..9}
IsDigit(c) == \E z \in DigitZeros : z <= c /\ c <= z + 9
DigitValue(c) == c - (CHOOSE z \in DigitZeros : z <= c /\ c <= z + 9)

\* the simple case mappings, as <<first, last, step, delta>>: a character c of
\* first..last with (c - first) % step = 0 maps to c + delta
LowerRanges ==
    {<<65, 90, 1, 32>>, <<192, 214, 1, 32>>, <<216, 222, 1, 32>>, <<256, 302, 2, 1>>,
     <<306, 310, 2, 1>>, <<313, 327, 2, 1>>, <<330, 374, 2, 1>>, <<376, 376, 1, -121>>,
     <<377, 381, 2, 1>>, <<385, 385, 1, 210>>, <<386, 388, 2, 1>>, <<390, 390, 1, 206>>,
     <<391, 391, 1, 1>>, <<393, 394, 1, 205>>, <<395, 395, 1, 1>>, <<398, 398, 1, 79>>,
     <<399, 399, 1, 202>>, <<400, 400, 1, 203>>, <<401, 401, 1, 1>>, <<403, 403, 1, 205>>,
     <<404, 404, 1, 207>>, <<406, 406, 1, 211>>, <<407, 407, 1, 209>>, <<408, 408, 1, 1>>,
     <<412, 412, 1, 211>>, <<413, 413, 1, 213>>, <<415, 415, 1, 214>>, <<416, 420, 2, 1>>,
     <<422, 422, 1, 218>>, <<423, 423, 1, 1>>, <<425, 425, 1, 218>>, <<428, 428, 1, 1>>,
     <<430, 430, 1, 218>>, <<431, 431, 1, 1>>, <<433, 434, 1, 217>>, <<435, 437, 2, 1>>,
     <<439, 439, 1, 219>>, <<440, 440, 1, 1>>, <<444, 444, 1, 1>>, <<452, 452, 1, 2>>,
     <<453, 453, 1, 1>>, <<455, 455, 1, 2>>, <<456, 456, 1, 1>>, <<458, 458, 1, 2>>,
     <<459, 475, 2, 1>>, <<478, 494, 2, 1>>, <<497, 497, 1, 2>>, <<498, 500, 2, 1>>,
     <<502, 502, 1, -97>>, <<503, 503, 1, -56>>, <<504, 542, 2, 1>>, <<544, 544, 1, -130>>,
     <<546, 562, 2, 1>>, <<570, 570, 1, 10795>>, <<571, 571, 1, 1>>, <<573, 573, 1, -163>>,
     <<574, 574, 1, 10792>>, <<577, 577, 1, 1>>, <<579, 579, 1, -195>>, <<580, 580, 1, 69>>,
     <<581, 581, 1, 71>>, <<582, 590, 2, 1>>, <<880, 882, 2, 1>>, <<886, 886, 1, 1>>,
     <<895, 895, 1, 116>>, <<902, 902, 1, 38>>, <<904, 906, 1, 37>>, <<908, 908, 1, 64>>,
     <<910, 911, 1, 63>>, <<913, 929, 1, 32>>, <<931, 939, 1, 32>>, <<975, 975, 1, 8>>,
     <<984, 1006, 2, 1>>, <<1012, 1012, 1, -60>>, <<1015, 1015, 1, 1>>, <<1017, 1017, 1, -7>>,
     <<1018, 1018, 1, 1>>, <<1021, 1023, 1, -130>>, <<1024, 1039, 1, 80>>, <<1040, 1071, 1, 32>>,
     <<1120, 1152, 2, 1>>, <<1162, 1214, 2, 1>>, <<1216, 1216, 1, 15>>, <<1217, 1229, 2, 1>>,
     <<1232, 1326, 2, 1>>, <<1329, 1366, 1, 48>>, <<4256, 4293, 1, 7264>>, <<4295, 4295, 1, 7264>>,
     <<4301, 4301, 1, 7264>>, <<5024, 5103, 1, 38864>>, <<5104, 5109, 1, 8>>,
     <<7312, 7354, 1, -3008>>, <<7357, 7359, 1, -3008>>, <<7680, 7828, 2, 1>>,
     <<7838, 7838, 1, -7615>>, <<7840, 7934, 2, 1>>, <<7944, 7951, 1, -8>>, <<7960, 7965, 1, -8>>,
     <<7976, 7983, 1, -8>>, <<7992, 7999, 1, -8>>, <<8008, 8013, 1, -8>>, <<8025, 8031, 2, -8>>,
     <<8040, 8047, 1, -8>>, <<8072, 8079, 1, -8>>, <<8088, 8095, 1, -8>>, <<8104, 8111, 1, -8>>,
     <<8120, 8121, 1, -8>>, <<8122, 8123, 1, -74>>, <<8124, 8124, 1, -9>>, <<8136, 8139, 1, -86>>,
     <<8140, 8140, 1, -9>>, <<8152, 8153, 1, -8>>, <<8154, 8155, 1, -100>>, <<8168, 8169, 1, -8>>,
     <<8170, 8171, 1, -112>>, <<8172, 8172, 1, -7>>, <<8184, 8185, 1, -128>>,
     <<8186, 8187, 1, -126>>, <<8188, 8188, 1, -9>>, <<8486, 8486, 1, -7517>>,
     <<8490, 8490, 1, -8383>>, <<8491, 8491, 1, -8262>>, <<8498, 8498, 1, 28>>,
     <<8544, 8559, 1, 16>>, <<8579, 8579, 1, 1>>, <<9398, 9423, 1, 26>>, <<11264, 11311, 1, 48>>,
     <<11360, 11360, 1, 1>>, <<11362, 11362, 1, -10743>>, <<11363, 11363, 1, -3814>>,
     <<11364, 11364, 1, -10727>>, <<11367, 11371, 2, 1>>, <<11373, 11373, 1, -10780>>,
     <<11374, 11374, 1, -10749>>, <<11375, 11375, 1, -10783>>, <<11376, 11376, 1, -10782>>,
     <<11378, 11378, 1, 1>>, <<11381, 11381, 1, 1>>, <<11390, 11391, 1, -10815>>,
     <<11392, 11490, 2, 1>>, <<11499, 11501, 2, 1>>, <<11506, 11506, 1, 1>>,
     <<42560, 42604, 2, 1>>, <<42624, 42650, 2, 1>>, <<42786, 42798, 2, 1>>,
     <<42802, 42862, 2, 1>>, <<42873, 42875, 2, 1>>, <<42877, 42877, 1, -35332>>,
     <<42878, 42886, 2, 1>>, <<42891, 42891, 1, 1>>, <<42893, 42893, 1, -42280>>,
     <<42896, 42898, 2, 1>>, <<42902, 42920, 2, 1>>, <<42922, 42922, 1, -42308>>,
     <<42923, 42923, 1, -42319>>, <<42924, 42924, 1, -42315>>, <<42925, 42925, 1, -42305>>,
     <<42926, 42926, 1, -42308>>, <<42928, 42928, 1, -42258>>, <<42929, 42929, 1, -42282>>,
     <<42930, 42930, 1, -42261>>, <<42931, 42931, 1, 928>>, <<42932, 42946, 2, 1>>,
     <<42948, 42948, 1, -48>>, <<42949, 42949, 1, -42307>>, <<42950, 42950, 1, -35384>>,
     <<42951, 42953, 2, 1>>, <<42960, 42960, 1, 1>>, <<42966, 42968, 2, 1>>,
     <<42997, 42997, 1, 1>>, <<65313, 65338, 1, 32>>, <<66560, 66599, 1, 40>>,
     <<66736, 66771, 1, 40>>, <<66928, 66938, 1, 39>>, <<66940, 66954, 1, 39>>,
     <<66956, 66962, 1, 39>>, <<66964, 66965, 1, 39>>, <<68736, 68786, 1, 64>>,
     <<71840, 71871, 1, 32>>, <<93760, 93791, 1, 32>>, <<125184, 125217, 1, 34>>}
AsciiLowerRanges == {r \in LowerRanges : r[2] < 128}
UpperRanges ==
    {<<97, 122, 1, -32>>, <<181, 181, 1, 743>>, <<224, 246, 1, -32>>, <<248, 254, 1, -32>>,
     <<255, 255, 1, 121>>, <<257, 303, 2, -1>>, <<305, 305, 1, -232>>, <<307, 311, 2, -1>>,
     <<314, 328, 2, -1>>, <<331, 375, 2, -1>>, <<378, 382, 2, -1>>, <<383, 383, 1, -300>>,
     <<384, 384, 1, 195>>, <<387, 389, 2, -1>>, <<392, 392, 1, -1>>, <<396, 396, 1, -1>>,
     <<402, 402, 1, -1>>, <<405, 405, 1, 97>>, <<409, 409, 1, -1>>, <<410, 410, 1, 163>>,
     <<414, 414, 1, 130>>, <<417, 421, 2, -1>>, <<424, 424, 1, -1>>, <<429, 429, 1, -1>>,
     <<432, 432, 1, -1>>, <<436, 438, 2, -1>>, <<441, 441, 1, -1>>, <<445, 445, 1, -1>>,
     <<447, 447, 1, 56>>, <<453, 453, 1, -1>>, <<454, 454, 1, -2>>, <<456, 456, 1, -1>>,
     <<457, 457, 1, -2>>, <<459, 459, 1, -1>>, <<460, 460, 1, -2>>, <<462, 476, 2, -1>>,
     <<477, 477, 1, -79>>, <<479, 495, 2, -1>>, <<498, 498, 1, -1>>, <<499, 499, 1, -2>>,
     <<501, 501, 1, -1>>, <<505, 543, 2, -1>>, <<547, 563, 2, -1>>, <<572, 572, 1, -1>>,
     <<575, 576, 1, 10815>>, <<578, 578, 1, -1>>, <<583, 591, 2, -1>>, <<592, 592, 1, 10783>>,
     <<593, 593, 1, 10780>>, <<594, 594, 1, 10782>>, <<595, 595, 1, -210>>, <<596, 596, 1, -206>>,
     <<598, 599, 1, -205>>, <<601, 601, 1, -202>>, <<603, 603, 1, -203>>, <<604, 604, 1, 42319>>,
     <<608, 608, 1, -205>>, <<609, 609, 1, 42315>>, <<611, 611, 1, -207>>, <<613, 613, 1, 42280>>,
     <<614, 614, 1, 42308>>, <<616, 616, 1, -209>>, <<617, 617, 1, -211>>, <<618, 618, 1, 42308>>,
     <<619, 619, 1, 10743>>, <<620, 620, 1, 42305>>, <<623, 623, 1, -211>>, <<625, 625, 1, 10749>>,
     <<626, 626, 1, -213>>, <<629, 629, 1, -214>>, <<637, 637, 1, 10727>>, <<640, 640, 1, -218>>,
     <<642, 642, 1, 42307>>, <<643, 643, 1, -218>>, <<647, 647, 1, 42282>>, <<648, 648, 1, -218>>,
     <<649, 649, 1, -69>>, <<650, 651, 1, -217>>, <<652, 652, 1, -71>>, <<658, 658, 1, -219>>,
     <<669, 669, 1, 42261>>, <<670, 670, 1, 42258>>, <<837, 837, 1, 84>>, <<881, 883, 2, -1>>,
     <<887, 887, 1, -1>>, <<891, 893, 1, 130>>, <<940, 940, 1, -38>>, <<941, 943, 1, -37>>,
     <<945, 961, 1, -32>>, <<962, 962, 1, -31>>, <<963, 971, 1, -32>>, <<972, 972, 1, -64>>,
     <<973, 974, 1, -63>>, <<976, 976, 1, -62>>, <<977, 977, 1, -57>>, <<981, 981, 1, -47>>,
     <<982, 982, 1, -54>>, <<983, 983, 1, -8>>, <<985, 1007, 2, -1>>, <<1008, 1008, 1, -86>>,
     <<1009, 1009, 1, -80>>, <<1010, 1010, 1, 7>>, <<1011, 1011, 1, -116>>, <<1013, 1013, 1, -96>>,
     <<1016, 1016, 1, -1>>, <<1019, 1019, 1, -1>>, <<1072, 1103, 1, -32>>, <<1104, 1119, 1, -80>>,
     <<1121, 1153, 2, -1>>, <<1163, 1215, 2, -1>>, <<1218, 1230, 2, -1>>, <<1231, 1231, 1, -15>>,
     <<1233, 1327, 2, -1>>, <<1377, 1414, 1, -48>>, <<4304, 4346, 1, 3008>>,
     <<4349, 4351, 1, 3008>>, <<5112, 5117, 1, -8>>, <<7296, 7296, 1, -6254>>,
     <<7297, 7297, 1, -6253>>, <<7298, 7298, 1, -6244>>, <<7299, 7300, 1, -6242>>,
     <<7301, 7301, 1, -6243>>, <<7302, 7302, 1, -6236>>, <<7303, 7303, 1, -6181>>,
     <<7304, 7304, 1, 35266>>, <<7545, 7545, 1, 35332>>, <<7549, 7549, 1, 3814>>,
     <<7566, 7566, 1, 35384>>, <<7681, 7829, 2, -1>>, <<7835, 7835, 1, -59>>,
     <<7841, 7935, 2, -1>>, <<7936, 7943, 1, 8>>, <<7952, 7957, 1, 8>>, <<7968, 7975, 1, 8>>,
     <<7984, 7991, 1, 8>>, <<8000, 8005, 1, 8>>, <<8017, 8023, 2, 8>>, <<8032, 8039, 1, 8>>,
     <<8048, 8049, 1, 74>>, <<8050, 8053, 1, 86>>, <<8054, 8055, 1, 100>>, <<8056, 8057, 1, 128>>,
     <<8058, 8059, 1, 112>>, <<8060, 8061, 1, 126>>, <<8112, 8113, 1, 8>>,
     <<8126, 8126, 1, -7205>>, <<8144, 8145, 1, 8>>, <<8160, 8161, 1, 8>>, <<8165, 8165, 1, 7>>,
     <<8526, 8526, 1, -28>>, <<8560, 8575, 1, -16>>, <<8580, 8580, 1, -1>>, <<9424, 9449, 1, -26>>,
     <<11312, 11359, 1, -48>>, <<11361, 11361, 1, -1>>, <<11365, 11365, 1, -10795>>,
     <<11366, 11366, 1, -10792>>, <<11368, 11372, 2, -1>>, <<11379, 11379, 1, -1>>,
     <<11382, 11382, 1, -1>>, <<11393, 11491, 2, -1>>, <<11500, 11502, 2, -1>>,
     <<11507, 11507, 1, -1>>, <<11520, 11557, 1, -7264>>, <<11559, 11559, 1, -7264>>,
     <<11565, 11565, 1, -7264>>, <<42561, 42605, 2, -1>>, <<42625, 42651, 2, -1>>,
     <<42787, 42799, 2, -1>>, <<42803, 42863, 2, -1>>, <<42874, 42876, 2, -1>>,
     <<42879, 42887, 2, -1>>, <<42892, 42892, 1, -1>>, <<42897, 42899, 2, -1>>,
     <<42900, 42900, 1, 48>>, <<42903, 42921, 2, -1>>, <<42933, 42947, 2, -1>>,
     <<42952, 42954, 2, -1>>, <<42961, 42961, 1, -1>>, <<42967, 42969, 2, -1>>,
     <<42998, 42998, 1, -1>>, <<43859, 43859, 1, -928>>, <<43888, 43967, 1, -38864>>,
     <<65345, 65370, 1, -32>>, <<66600, 66639, 1, -40>>, <<66776, 66811, 1, -40>>,
     <<66967, 66977, 1, -39>>, <<66979, 66993, 1, -39>>, <<66995, 67001, 1, -39>>,
     <<67003, 67004, 1, -39>>, <<68800, 68850, 1, -64>>, <<71872, 71903, 1, -32>>,
     <<93792, 93823, 1, -32>>, <<125218, 125251, 1, -34>>}
AsciiUpperRanges == {r \in UpperRanges : r[2] < 128}

\* the characters whose upper case is more than one character
UpperSpecial ==
    {<<223, <<83, 83>>>>, <<329, <<700, 78>>>>, <<496, <<74, 780>>>>, <<912, <<921, 776, 769>>>>,
     <<944, <<933, 776, 769>>>>, <<1415, <<1333, 1362>>>>, <<7830, <<72, 817>>>>,
     <<7831, <<84, 776>>>>, <<7832, <<87, 778>>>>, <<7833, <<89, 778>>>>, <<7834, <<65, 702>>>>,
     <<8016, <<933, 787>>>>, <<8018, <<933, 787, 768>>>>, <<8020, <<933, 787, 769>>>>,
     <<8022, <<933, 787, 834>>>>, <<8064, <<7944, 921>>>>, <<8065, <<7945, 921>>>>,
     <<8066, <<7946, 921>>>>, <<8067, <<7947, 921>>>>, <<8068, <<7948, 921>>>>,
     <<8069, <<7949, 921>>>>, <<8070, <<7950, 921>>>>, <<8071, <<7951, 921>>>>,
     <<8072, <<7944, 921>>>>, <<8073, <<7945, 921>>>>, <<8074, <<7946, 921>>>>,
     <<8075, <<7947, 921>>>>, <<8076, <<7948, 921>>>>, <<8077, <<7949, 921>>>>,
     <<8078, <<7950, 921>>>>, <<8079, <<7951, 921>>>>, <<8080, <<7976, 921>>>>,
     <<8081, <<7977, 921>>>>, <<8082, <<7978, 921>>>>, <<8083, <<7979, 921>>>>,
     <<8084, <<7980, 921>>>>, <<8085, <<7981, 921>>>>, <<8086, <<7982, 921>>>>,
     <<8087, <<7983, 921>>>>, <<8088, <<7976, 921>>>>, <<8089, <<7977, 921>>>>,
     <<8090, <<7978, 921>>>>, <<8091, <<7979, 921>>>>, <<8092, <<7980, 921>>>>,
     <<8093, <<7981, 921>>>>, <<8094, <<7982, 921>>>>, <<8095, <<7983, 921>>>>,
     <<8096, <<8040, 921>>>>, <<8097, <<8041, 921>>>>, <<8098, <<8042, 921>>>>,
     <<8099, <<8043, 921>>>>, <<8100, <<8044, 921>>>>, <<8101, <<8045, 921>>>>,
     <<8102, <<8046, 921>>>>, <<8103, <<8047, 921>>>>, <<8104, <<8040, 921>>>>,
     <<8105, <<8041, 921>>>>, <<8106, <<8042, 921>>>>, <<8107, <<8043, 921>>>>,
     <<8108, <<8044, 921>>>>, <<8109, <<8045, 921>>>>, <<8110, <<8046, 921>>>>,
     <<8111, <<8047, 921>>>>, <<8114, <<8122, 921>>>>, <<8115, <<913, 921>>>>,
     <<8116, <<902, 921>>>>, <<8118, <<913, 834>>>>, <<8119, <<913, 834, 921>>>>,
     <<8124, <<913, 921>>>>, <<8130, <<8138, 921>>>>, <<8131, <<919, 921>>>>,
     <<8132, <<905, 921>>>>, <<8134, <<919, 834>>>>, <<8135, <<919, 834, 921>>>>,
     <<8140, <<919, 921>>>>, <<8146, <<921, 776, 768>>>>, <<8147, <<921, 776, 769>>>>,
     <<8150, <<921, 834>>>>, <<8151, <<921, 776, 834>>>>, <<8162, <<933, 776, 768>>>>,
     <<8163, <<933, 776, 769>>>>, <<8164, <<929, 787>>>>, <<8166, <<933, 834>>>>,
     <<8167, <<933, 776, 834>>>>, <<8178, <<8186, 921>>>>, <<8179, <<937, 921>>>>,
     <<8180, <<911, 921>>>>, <<8182, <<937, 834>>>>, <<8183, <<937, 834, 921>>>>,
     <<8188, <<937, 921>>>>, <<64256, <<70, 70>>>>, <<64257, <<70, 73>>>>, <<64258, <<70, 76>>>>,
     <<64259, <<70, 70, 73>>>>, <<64260, <<70, 70, 76>>>>, <<64261, <<83, 84>>>>,
     <<64262, <<83, 84>>>>, <<64275, <<1348, 1350>>>>, <<64276, <<1348, 1333>>>>,
     <<64277, <<1348, 1339>>>>, <<64278, <<1358, 1350>>>>, <<64279, <<1348, 1341>>>>}

\* the cased characters and the case-ignorable characters, which decide the
\* lower case of a capital sigma
CasedRanges ==
    {<<65, 90>>, <<97, 122>>, <<170, 170>>, <<181, 181>>, <<186, 186>>, <<192, 214>>, <<216, 246>>,
     <<248, 442>>, <<444, 447>>, <<452, 659>>, <<661, 696>>, <<704, 705>>, <<736, 740>>,
     <<837, 837>>, <<880, 883>>, <<886, 887>>, <<890, 893>>, <<895, 895>>, <<902, 902>>,
     <<904, 906>>, <<908, 908>>, <<910, 929>>, <<931, 1013>>, <<1015, 1153>>, <<1162, 1327>>,
     <<1329, 1366>>, <<1376, 1416>>, <<4256, 4293>>, <<4295, 4295>>, <<4301, 4301>>,
     <<4304, 4346>>, <<4349, 4351>>, <<5024, 5109>>, <<5112, 5117>>, <<7296, 7304>>,
     <<7312, 7354>>, <<7357, 7359>>, <<7424, 7615>>, <<7680, 7957>>, <<7960, 7965>>,
     <<7968, 8005>>, <<8008, 8013>>, <<8016, 8023>>, <<8025, 8025>>, <<8027, 8027>>,
     <<8029, 8029>>, <<8031, 8061>>, <<8064, 8116>>, <<8118, 8124>>, <<8126, 8126>>,
     <<8130, 8132>>, <<8134, 8140>>, <<8144, 8147>>, <<8150, 8155>>, <<8160, 8172>>,
     <<8178, 8180>>, <<8182, 8188>>, <<8305, 8305>>, <<8319, 8319>>, <<8336, 8348>>,
     <<8450, 8450>>, <<8455, 8455>>, <<8458, 8467>>, <<8469, 8469>>, <<8473, 8477>>,
     <<8484, 8484>>, <<8486, 8486>>, <<8488, 8488>>, <<8490, 8493>>, <<8495, 8500>>,
     <<8505, 8505>>, <<8508, 8511>>, <<8517, 8521>>, <<8526, 8526>>, <<8544, 8575>>,
     <<8579, 8580>>, <<9398, 9449>>, <<11264, 11492>>, <<11499, 11502>>, <<11506, 11507>>,
     <<11520, 11557>>, <<11559, 11559>>, <<11565, 11565>>, <<42560, 42605>>, <<42624, 42653>>,
     <<42786, 42887>>, <<42891, 42894>>, <<42896, 42954>>, <<42960, 42961>>, <<42963, 42963>>,
     <<42965, 42969>>, <<42997, 42998>>, <<43000, 43002>>, <<43824, 43866>>, <<43868, 43880>>,
     <<43888, 43967>>, <<64256, 64262>>, <<64275, 64279>>, <<65313, 65338>>, <<65345, 65370>>,
     <<66560, 66639>>, <<66736, 66771>>, <<66776, 66811>>, <<66928, 66938>>, <<66940, 66954>>,
     <<66956, 66962>>, <<66964, 66965>>, <<66967, 66977>>, <<66979, 66993>>, <<66995, 67001>>,
     <<67003, 67004>>, <<67456, 67456>>, <<67459, 67461>>, <<67463, 67504>>, <<67506, 67514>>,
     <<68736, 68786>>, <<68800, 68850>>, <<71840, 71903>>, <<93760, 93823>>, <<119808, 119892>>,
     <<119894, 119964>>, <<119966, 119967>>, <<119970, 119970>>, <<119973, 119974>>,
     <<119977, 119980>>, <<119982, 119993>>, <<119995, 119995>>, <<119997, 120003>>,
     <<120005, 120069>>, <<120071, 120074>>, <<120077, 120084>>, <<120086, 120092>>,
     <<120094, 120121>>, <<120123, 120126>>, <<120128, 120132>>, <<120134, 120134>>,
     <<120138, 120144>>, <<120146, 120485>>, <<120488, 120512>>, <<120514, 120538>>,
     <<120540, 120570>>, <<120572, 120596>>, <<120598, 120628>>, <<120630, 120654>>,
     <<120656, 120686>>, <<120688, 120712>>, <<120714, 120744>>, <<120746, 120770>>,
     <<120772, 120779>>, <<122624, 122633>>, <<122635, 122654>>, <<125184, 125251>>,
     <<127280, 127305>>, <<127312, 127337>>, <<127344, 127369>>}
CaseIgnorableRanges ==
    {<<39, 39>>, <<46, 46>>, <<58, 58>>, <<94, 94>>, <<96, 96>>, <<168, 168>>, <<173, 173>>,
     <<175, 175>>, <<180, 180>>, <<183, 184>>, <<688, 879>>, <<884, 885>>, <<890, 890>>,
     <<900, 901>>, <<903, 903>>, <<1155, 1161>>, <<1369, 1369>>, <<1375, 1375>>, <<1425, 1469>>,
     <<1471, 1471>>, <<1473, 1474>>, <<1476, 1477>>, <<1479, 1479>>, <<1524, 1524>>,
     <<1536, 1541>>, <<1552, 1562>>, <<1564, 1564>>, <<1600, 1600>>, <<1611, 1631>>,
     <<1648, 1648>>, <<1750, 1757>>, <<1759, 1768>>, <<1770, 1773>>, <<1807, 1807>>,
     <<1809, 1809>>, <<1840, 1866>>, <<1958, 1968>>, <<2027, 2037>>, <<2042, 2042>>,
     <<2045, 2045>>, <<2070, 2093>>, <<2137, 2139>>, <<2184, 2184>>, <<2192, 2193>>,
     <<2200, 2207>>, <<2249, 2306>>, <<2362, 2362>>, <<2364, 2364>>, <<2369, 2376>>,
     <<2381, 2381>>, <<2385, 2391>>, <<2402, 2403>>, <<2417, 2417>>, <<2433, 2433>>,
     <<2492, 2492>>, <<2497, 2500>>, <<2509, 2509>>, <<2530, 2531>>, <<2558, 2558>>,
     <<2561, 2562>>, <<2620, 2620>>, <<2625, 2626>>, <<2631, 2632>>, <<2635, 2637>>,
     <<2641, 2641>>, <<2672, 2673>>, <<2677, 2677>>, <<2689, 2690>>, <<2748, 2748>>,
     <<2753, 2757>>, <<2759, 2760>>, <<2765, 2765>>, <<2786, 2787>>, <<2810, 2815>>,
     <<2817, 2817>>, <<2876, 2876>>, <<2879, 2879>>, <<2881, 2884>>, <<2893, 2893>>,
     <<2901, 2902>>, <<2914, 2915>>, <<2946, 2946>>, <<3008, 3008>>, <<3021, 3021>>,
     <<3072, 3072>>, <<3076, 3076>>, <<3132, 3132>>, <<3134, 3136>>, <<3142, 3144>>,
     <<3146, 3149>>, <<3157, 3158>>, <<3170, 3171>>, <<3201, 3201>>, <<3260, 3260>>,
     <<3263, 3263>>, <<3270, 3270>>, <<3276, 3277>>, <<3298, 3299>>, <<3328, 3329>>,
     <<3387, 3388>>, <<3393, 3396>>, <<3405, 3405>>, <<3426, 3427>>, <<3457, 3457>>,
     <<3530, 3530>>, <<3538, 3540>>, <<3542, 3542>>, <<3633, 3633>>, <<3636, 3642>>,
     <<3654, 3662>>, <<3761, 3761>>, <<3764, 3772>>, <<3782, 3782>>, <<3784, 3789>>,
     <<3864, 3865>>, <<3893, 3893>>, <<3895, 3895>>, <<3897, 3897>>, <<3953, 3966>>,
     <<3968, 3972>>, <<3974, 3975>>, <<3981, 3991>>, <<3993, 4028>>, <<4038, 4038>>,
     <<4141, 4144>>, <<4146, 4151>>, <<4153, 4154>>, <<4157, 4158>>, <<4184, 4185>>,
     <<4190, 4192>>, <<4209, 4212>>, <<4226, 4226>>, <<4229, 4230>>, <<4237, 4237>>,
     <<4253, 4253>>, <<4348, 4348>>, <<4957, 4959>>, <<5906, 5908>>, <<5938, 5939>>,
     <<5970, 5971>>, <<6002, 6003>>, <<6068, 6069>>, <<6071, 6077>>, <<6086, 6086>>,
     <<6089, 6099>>, <<6103, 6103>>, <<6109, 6109>>, <<6155, 6159>>, <<6211, 6211>>,
     <<6277, 6278>>, <<6313, 6313>>, <<6432, 6434>>, <<6439, 6440>>, <<6450, 6450>>,
     <<6457, 6459>>, <<6679, 6680>>, <<6683, 6683>>, <<6742, 6742>>, <<6744, 6750>>,
     <<6752, 6752>>, <<6754, 6754>>, <<6757, 6764>>, <<6771, 6780>>, <<6783, 6783>>,
     <<6823, 6823>>, <<6832, 6862>>, <<6912, 6915>>, <<6964, 6964>>, <<6966, 6970>>,
     <<6972, 6972>>, <<6978, 6978>>, <<7019, 7027>>, <<7040, 7041>>, <<7074, 7077>>,
     <<7080, 7081>>, <<7083, 7085>>, <<7142, 7142>>, <<7144, 7145>>, <<7149, 7149>>,
     <<7151, 7153>>, <<7212, 7219>>, <<7222, 7223>>, <<7288, 7293>>, <<7376, 7378>>,
     <<7380, 7392>>, <<7394, 7400>>, <<7405, 7405>>, <<7412, 7412>>, <<7416, 7417>>,
     <<7468, 7530>>, <<7544, 7544>>, <<7579, 7679>>, <<8125, 8125>>, <<8127, 8129>>,
     <<8141, 8143>>, <<8157, 8159>>, <<8173, 8175>>, <<8189, 8190>>, <<8203, 8207>>,
     <<8216, 8217>>, <<8228, 8228>>, <<8231, 8231>>, <<8234, 8238>>, <<8288, 8292>>,
     <<8294, 8303>>, <<8305, 8305>>, <<8319, 8319>>, <<8336, 8348>>, <<8400, 8432>>,
     <<11388, 11389>>, <<11503, 11505>>, <<11631, 11631>>, <<11647, 11647>>, <<11744, 11775>>,
     <<11823, 11823>>, <<12293, 12293>>, <<12330, 12333>>, <<12337, 12341>>, <<12347, 12347>>,
     <<12441, 12446>>, <<12540, 12542>>, <<40981, 40981>>, <<42232, 42237>>, <<42508, 42508>>,
     <<42607, 42610>>, <<42612, 42621>>, <<42623, 42623>>, <<42652, 42655>>, <<42736, 42737>>,
     <<42752, 42785>>, <<42864, 42864>>, <<42888, 42890>>, <<42994, 42996>>, <<43000, 43001>>,
     <<43010, 43010>>, <<43014, 43014>>, <<43019, 43019>>, <<43045, 43046>>, <<43052, 43052>>,
     <<43204, 43205>>, <<43232, 43249>>, <<43263, 43263>>, <<43302, 43309>>, <<43335, 43345>>,
     <<43392, 43394>>, <<43443, 43443>>, <<43446, 43449>>, <<43452, 43453>>, <<43471, 43471>>,
     <<43493, 43494>>, <<43561, 43566>>, <<43569, 43570>>, <<43573, 43574>>, <<43587, 43587>>,
     <<43596, 43596>>, <<43632, 43632>>, <<43644, 43644>>, <<43696, 43696>>, <<43698, 43700>>,
     <<43703, 43704>>, <<43710, 43711>>, <<43713, 43713>>, <<43741, 43741>>, <<43756, 43757>>,
     <<43763, 43764>>, <<43766, 43766>>, <<43867, 43871>>, <<43881, 43883>>, <<44005, 44005>>,
     <<44008, 44008>>, <<44013, 44013>>, <<64286, 64286>>, <<64434, 64450>>, <<65024, 65039>>,
     <<65043, 65043>>, <<65056, 65071>>, <<65106, 65106>>, <<65109, 65109>>, <<65279, 65279>>,
     <<65287, 65287>>, <<65294, 65294>>, <<65306, 65306>>, <<65342, 65342>>, <<65344, 65344>>,
     <<65392, 65392>>, <<65438, 65439>>, <<65507, 65507>>, <<65529, 65531>>, <<66045, 66045>>,
     <<66272, 66272>>, <<66422, 66426>>, <<67456, 67461>>, <<67463, 67504>>, <<67506, 67514>>,
     <<68097, 68099>>, <<68101, 68102>>, <<68108, 68111>>, <<68152, 68154>>, <<68159, 68159>>,
     <<68325, 68326>>, <<68900, 68903>>, <<69291, 69292>>, <<69446, 69456>>, <<69506, 69509>>,
     <<69633, 69633>>, <<69688, 69702>>, <<69744, 69744>>, <<69747, 69748>>, <<69759, 69761>>,
     <<69811, 69814>>, <<69817, 69818>>, <<69821, 69821>>, <<69826, 69826>>, <<69837, 69837>>,
     <<69888, 69890>>, <<69927, 69931>>, <<69933, 69940>>, <<70003, 70003>>, <<70016, 70017>>,
     <<70070, 70078>>, <<70089, 70092>>, <<70095, 70095>>, <<70191, 70193>>, <<70196, 70196>>,
     <<70198, 70199>>, <<70206, 70206>>, <<70367, 70367>>, <<70371, 70378>>, <<70400, 70401>>,
     <<70459, 70460>>, <<70464, 70464>>, <<70502, 70508>>, <<70512, 70516>>, <<70712, 70719>>,
     <<70722, 70724>>, <<70726, 70726>>, <<70750, 70750>>, <<70835, 70840>>, <<70842, 70842>>,
     <<70847, 70848>>, <<70850, 70851>>, <<71090, 71093>>, <<71100, 71101>>, <<71103, 71104>>,
     <<71132, 71133>>, <<71219, 71226>>, <<71229, 71229>>, <<71231, 71232>>, <<71339, 71339>>,
     <<71341, 71341>>, <<71344, 71349>>, <<71351, 71351>>, <<71453, 71455>>, <<71458, 71461>>,
     <<71463, 71467>>, <<71727, 71735>>, <<71737, 71738>>, <<71995, 71996>>, <<71998, 71998>>,
     <<72003, 72003>>, <<72148, 72151>>, <<72154, 72155>>, <<72160, 72160>>, <<72193, 72202>>,
     <<72243, 72248>>, <<72251, 72254>>, <<72263, 72263>>, <<72273, 72278>>, <<72281, 72283>>,
     <<72330, 72342>>, <<72344, 72345>>, <<72752, 72758>>, <<72760, 72765>>, <<72767, 72767>>,
     <<72850, 72871>>, <<72874, 72880>>, <<72882, 72883>>, <<72885, 72886>>, <<73009, 73014>>,
     <<73018, 73018>>, <<73020, 73021>>, <<73023, 73029>>, <<73031, 73031>>, <<73104, 73105>>,
     <<73109, 73109>>, <<73111, 73111>>, <<73459, 73460>>, <<78896, 78904>>, <<92912, 92916>>,
     <<92976, 92982>>, <<92992, 92995>>, <<94031, 94031>>, <<94095, 94111>>, <<94176, 94177>>,
     <<94179, 94180>>, <<110576, 110579>>, <<110581, 110587>>, <<110589, 110590>>,
     <<113821, 113822>>, <<113824, 113827>>, <<118528, 118573>>, <<118576, 118598>>,
     <<119143, 119145>>, <<119155, 119170>>, <<119173, 119179>>, <<119210, 119213>>,
     <<119362, 119364>>, <<121344, 121398>>, <<121403, 121452>>, <<121461, 121461>>,
     <<121476, 121476>>, <<121499, 121503>>, <<121505, 121519>>, <<122880, 122886>>,
     <<122888, 122904>>, <<122907, 122913>>, <<122915, 122916>>, <<122918, 122922>>,
     <<123184, 123197>>, <<123566, 123566>>, <<123628, 123631>>, <<125136, 125142>>,
     <<125252, 125259>>, <<127995, 127999>>, <<917505, 917505>>, <<917536, 917631>>,
     <<917760, 917999>>}

CaseMap(c, table) ==
    LET hit == {r \in table : r[1] <= c /\ c <= r[2] /\ (c - r[1]) % r[3] = 0}
    IN IF hit = {} THEN c ELSE c + (CHOOSE r \in hit : TRUE)[4]

\* a capital sigma at position i of t is final: the nearest character before it
\* that is not case-ignorable is cased, and the nearest one after it is not
FinalSigma(t, i) ==
    LET before == {j \in 1..(i - 1) : ~InRanges(t[j], CaseIgnorableRanges)}
        after == {j \in (i + 1)..Len(t) : ~InRanges(t[j], CaseIgnorableRanges)}
        prev == CHOOSE j \in before : \A k \in before : j >= k
        next == CHOOSE j \in after : \A k \in after : j <= k
    IN /\ before # {} /\ InRanges(t[prev], CasedRanges)
       /\ after = {} \/ ~InRanges(t[next], CasedRanges)

\* the lower case of the character at position i of t, and the upper case of
\* a character: one to three characters
LowerChar(t, i) ==
    LET c == t[i]
    IN IF c < 128 THEN <<CaseMap(c, AsciiLowerRanges)>>
       ELSE IF c = 304 THEN <<105, 775>>
       ELSE IF c = 931 THEN <<IF FinalSigma(t, i) THEN 962 ELSE 963>>
       ELSE <<CaseMap(c, LowerRanges)>>
UpperChar(c) ==
    IF c < 128 THEN <<CaseMap(c, AsciiUpperRanges)>>
    ELSE IF \E p \in UpperSpecial : p[1] = c THEN (CHOOSE p \in UpperSpecial : p[1] = c)[2]
    ELSE <<CaseMap(c, UpperRanges)>>

\* "".join(parts)
Flatten(parts) ==
    LET n == Len(parts)
        start(i) == Cardinality(UNION {{<<j, k>> : k \in DOMAIN parts[j]} : j \in 1..(i - 1)})
    IN IF \A i \in 1..n : Len(parts[i]) = 1 THEN [i \in 1..n |-> parts[i][1]]
       ELSE [k \in 1..start(n + 1) |->
                LET i == CHOOSE i \in 1..n : start(i) < k /\ k <= start(i) + Len(parts[i])
                IN parts[i][k - start(i)]]

\* str.lower(), str.upper()
Lower(t) == Flatten([i \in 1..Len(t) |-> LowerChar(t, i)])
Upper(t) == Flatten([i \in 1..Len(t) |-> UpperChar(t[i])])

\* str.strip()
Strip(t) ==
    LET kept == {i \in 1..Len(t) : t[i] \notin Whitespace}
        first == CHOOSE i \in kept : \A k \in kept : i <= k
        final == CHOOSE i \in kept : \A k \in kept : i >= k
    IN IF kept = {} THEN <<>> ELSE SubSeq(t, first, final)

\* keyword in text
MatchesAt(kw, t, i) == /\ i + Len(kw) - 1 <= Len(t)
                       /\ \A j \in 1..Len(kw) : t[i + j - 1] = kw[j]
Contains(kw, t) == \E i \in 1..(Len(t) - Len(kw) + 1) : MatchesAt(kw, t, i)

\* regex classes: [A-Z0-9] (no flag: "0".."9" and "A".."Z" only) and \w
IsUpperAlnum(c) == (48 <= c /\ c <= 57) \/ (65 <= c /\ c <= 90)
IsWordChar(c) == InRanges(c, IF c < 128 THEN AsciiWordRanges ELSE WordRanges)

\* \b before position i / after position i of t: a word character on exactly one side
BoundaryBefore(t, i) ==
    (i <= Len(t) /\ IsWordChar(t[i])) # (i > 1 /\ IsWordChar(t[i - 1]))

\* the token of n characters [A-Z0-9], between two \b, starting at i
TokenAt(t, i, n) ==
    /\ i + n - 1 <= Len(t)
    /\ \A j \in i..(i + n - 1) : IsUpperAlnum(t[j])
    /\ BoundaryBefore(t, i)
    /\ BoundaryBefore(t, i + n)

\* validate_asin(asin): asin is a str.  The $ of the pattern also matches before
\* a newline that ends the text
validate_asin(asin) ==
    IF asin = <<>> \/ Len(asin) # 10 THEN FALSE
    ELSE LET u == Upper(asin)
         IN /\ Len(u) \in {10, 11}
            /\ \A j \in 1..10 : IsUpperAlnum(u[j])
            /\ (Len(u) = 11 => u[11] = 10)

\* extract_asin_from_text(text): Optional str
extract_asin_from_text(text) ==
    LET u == Upper(text)
        bhits == {i \in 1..Len(u) : u[i] = 66 /\ TokenAt(u, i, 10)}
        hits == {i \in 1..Len(u) : TokenAt(u, i, 10)}
        first(S) == CHOOSE i \in S : \A k \in S : i <= k
    IN IF bhits # {} THEN Some(SubSeq(u, first(bhits), first(bhits) + 9))
       ELSE IF hits # {} /\ validate_asin(SubSeq(u, first(hits), first(hits) + 9))
       THEN Some(SubSeq(u, first(hits), first(hits) + 9))
       ELSE None

-----------------------------------------------------------------------------
(* Node 1: label_normalizer                                                *)

\* adjust_future_date(date_str) with the Pacific-time date pst
adjust_future_date(date_str, pst) ==
    IF ~TruthySeq(date_str) THEN date_str
    ELSE LET d == Val(date_str)
         IN IF ~IsValidDate(d) THEN date_str                 \* strptime raises, caught
            ELSE IF ToOrdinal(d) > pst
            THEN IF IsValidDate(<<d[1] - 1, d[2], d[3]>>)
                 THEN Some(<<d[1] - 1, d[2], d[3]>>)
                 ELSE date_str                                \* replace() raises, caught
            ELSE date_str

\* the ASIN kept from an extraction (lines 203-212)
checked_asin(question, asin) ==
    IF ~TruthySeq(asin) THEN asin
    ELSE LET extracted_asin == extract_asin_from_text(question)
         IN IF TruthySeq(extracted_asin) THEN extracted_asin
            ELSE IF ~validate_asin(Val(asin)) THEN None
            ELSE asin

\* the extractor's model call either raises an exception e, of which the node
\* keeps str(e), or returns a LabelExtraction
ExtractorRaises(e) == [raised |-> TRUE, e |-> e]
ExtractorReturns(e) == [raised |-> FALSE, extraction |-> e]

label_normalizer_node(s, outcome, pst) ==
    LET question == s["question"]
        retry_count == GetD(s, "_normalizer_retries", Some(0))
    IN IF outcome.raised
       THEN Set(Set(Set(s, "_normalizer_valid", Some(FALSE)),
                        "_normalizer_retries", Some(0)),
                        "_normalizer_feedback",
                        Some(Text(<<"E", "r", "r", "o", "r", ":", " ">>) \o outcome.e))
       ELSE LET e == outcome.extraction
                adj(label, d) == IF label = Some("explicit_date") THEN adjust_future_date(d, pst) ELSE d
                s1 == [x \in (DOMAIN s) \cup
                             {"_date_start_label", "_date_end_label",
                              "_compare_date_start_label", "_compare_date_end_label",
                              "_explicit_date_start", "_explicit_date_end",
                              "_explicit_compare_start", "_explicit_compare_end",
                              "_custom_days_count", "_custom_compare_days_count", "asin"} |->
                         CASE x = "_date_start_label" -> Some(e.date_start_label)
                           [] x = "_date_end_label" -> Some(e.date_end_label)
                           [] x = "_compare_date_start_label" -> e.compare_date_start_label
                           [] x = "_compare_date_end_label" -> e.compare_date_end_label
                           [] x = "_explicit_date_start" ->
                                  adj(Some(e.date_start_label), e.explicit_date_start)
                           [] x = "_explicit_date_end" ->
                                  adj(Some(e.date_end_label), e.explicit_date_end)
                           [] x = "_explicit_compare_start" ->
                                  adj(e.compare_date_start_label, e.explicit_compare_start)
                           [] x = "_explicit_compare_end" ->
                                  adj(e.compare_date_end_label, e.explicit_compare_end)
                           [] x = "_custom_days_count" -> e.custom_days_count
                           [] x = "_custom_compare_days_count" -> e.custom_compare_days_count
                           [] x = "asin" -> checked_asin(question, e.asin)
                           [] OTHER -> s[x]]
            IN IF retry_count = Some(0)
               THEN Set(Set(Set(s1, "_normalizer_valid", None),
                                "_normalizer_retries", Some(0)),
                                "_normalizer_feedback", None)
               ELSE s1

-----------------------------------------------------------------------------
(* Node 3: extractor_evaluator, and the conditional edge after it          *)

\* the validator's model call either raises an exception e, of which the node
\* keeps str(e), or returns an EvaluationResult
ValidatorRaises(e) == [raised |-> TRUE, e |-> e]
ValidatorReturns(v, f) == [raised |-> FALSE, is_valid |-> v, feedback |-> f]

\* the feedback stored when the retry budget is spent (line 65)
MaxRetriesExceeded ==
    Some(Text(<<"M", "a", "x", " ", "r", "e", "t", "r", "i", "e", "s", " ", "e", "x", "c", "e",
            "e", "d", "e", "d", " ", "-", " ", "p", "r", "o", "c", "e", "e", "d", "i", "n",
            "g", " ", "w", "i", "t", "h", " ", "c", "u", "r", "r", "e", "n", "t", " ", "e",
            "x", "t", "r", "a", "c", "t", "i", "o", "n">>))

\* a variant of the node that fails closed: a validator exception counts as a rejection
extractor_evaluator_node_FailClosed(s, outcome) ==
    LET r == Get(s, "_normalizer_retries")
        current_retries == IF r = None THEN 0 ELSE Val(r)
    IN IF current_retries >= 3
       THEN Set(Set(Set(s, "_normalizer_valid", Some(TRUE)),
                        "_normalizer_retries", Some(current_retries)),
                        "_normalizer_feedback", MaxRetriesExceeded)
       ELSE IF outcome.raised
       THEN Set(Set(Set(s, "_normalizer_valid", Some(FALSE)),
                        "_normalizer_retries", Some(current_retries + 1)),
                        "_normalizer_feedback",
                        Some(Text(<<"E", "v", "a", "l", "u", "a", "t", "i", "o", "n", " ", "e", "r", "r", "o", "r",
                                ":", " ">>) \o outcome.e))
       ELSE Set(Set(Set(s, "_normalizer_valid", Some(outcome.is_valid)),
                        "_normalizer_feedback", outcome.feedback),
                        "_normalizer_retries",
                        IF ~outcome.is_valid THEN Some(current_retries + 1)
                        ELSE Some(current_retries))

extractor_evaluator_node(s, outcome) ==
    LET r == Get(s, "_normalizer_retries")
        current_retries == IF r = None THEN 0 ELSE Val(r)
    IN IF current_retries >= 3
       THEN Set(Set(Set(s, "_normalizer_valid", Some(TRUE)),
                        "_normalizer_retries", Some(current_retries)),
                        "_normalizer_feedback", MaxRetriesExceeded)
       ELSE IF outcome.raised
       THEN Set(Set(Set(s, "_normalizer_valid", Some(TRUE)),
                        "_normalizer_retries", Some(current_retries)),
                        "_normalizer_feedback",
                        Some(Text(<<"E", "v", "a", "l", "u", "a", "t", "i", "o", "n", " ", "e", "r", "r", "o", "r",
                                ":", " ">>) \o outcome.e))
       ELSE Set(Set(Set(s, "_normalizer_valid", Some(outcome.is_valid)),
                        "_normalizer_feedback", outcome.feedback),
                        "_normalizer_retries",
                        IF ~outcome.is_valid THEN Some(current_retries + 1)
                        ELSE Some(current_retries))

route_after_evaluation(s) ==
    LET is_valid == GetD(s, "_normalizer_valid", Some(FALSE))
        retries == GetD(s, "_normalizer_retries", Some(0))
    IN IF TruthyBool(is_valid) \/ Val(retries) >= 3
       THEN "classifier"
       ELSE "label_normalizer"

-----------------------------------------------------------------------------
(* Intent classifier                                                       *)

HARDCODED_QUESTIONS ==
    {Text(<<"s", "h", "o", "w", " ", "m", "e", " ", "p", "e", "r", "f", "o", "r", "m", "a", "n", "c", "e", " ", "i", "n", "s", "i", "g", "h", "t", "s">>),
     Text(<<"g", "i", "v", "e", " ", "m", "e", " ", "p", "e", "r", "f", "o", "r", "m", "a", "n", "c", "e", " ", "i", "n", "s", "i", "g", "h", "t", "s">>),
     Text(<<"w", "h", "a", "t", " ", "w", "a", "s", " ", "t", "h", "e", " ", "h", "i", "g", "h", "e", "s", "t", " ", "p", "e", "r", "f", "o", "r", "m", "a", "n", "c", "e", " ", "d", "a", "y", "?">>),
     Text(<<"w", "h", "a", "t", " ", "d", "a", "y", " ", "h", "a", "d", " ", "t", "h", "e", " ", "b", "e", "s", "t", " ", "p", "e", "r", "f", "o", "r", "m", "a", "n", "c", "e", "?">>),
     Text(<<"c", "a", "n", " ", "y", "o", "u", " ", "c", "o", "m", "p", "a", "r", "e", " ", "m", "y", " ", "s", "t", "o", "r", "e", " ", "p", "e", "r", "f", "o", "r", "m", "a", "n", "c", "e", " ", "i", "n", " ", "a", "u", "g", "u", "s", "t", " ", "o", "v", "e", "r", " ", "a", "u", "g", "u", "s", "t", " ", "t", "o", " ", "s", "e", "p", "t", "e", "m", "b", "e", "r", "?">>),
     Text(<<"c", "a", "n", " ", "y", "o", "u", " ", "s", "h", "o", "w", " ", "m", "e", " ", "s", "o", "m", "e", " ", "i", "n", "s", "i", "g", "h", "t", "s", " ", "a", "b", "o", "u", "t", " ", "t", "h", "i", "s", " ", "p", "r", "o", "d", "u", "c", "t", " ", "f", "r", "o", "m", " ", "o", "c", "t", " ", "1", " ", "t", "o", " ", "o", "c", "t", " ", "3", "0">>),
     Text(<<"y", "e", "s">>)}

INSIGHT_KEYWORDS ==
    {Text(<<"c", "o", "m", "p", "a", "r", "e">>),
     Text(<<"c", "o", "m", "p", "a", "r", "e", "d">>),
     Text(<<"c", "o", "m", "p", "a", "r", "i", "s", "o", "n">>),
     Text(<<"v", "e", "r", "s", "u", "s">>),
     Text(<<"v", "s">>),
     Text(<<"d", "i", "f", "f", "e", "r", "e", "n", "c", "e">>),
     Text(<<"d", "i", "f", "f", "e", "r", "e", "n", "c", "e", "s">>),
     Text(<<"v", "a", "r", "i", "a", "n", "c", "e">>),
     Text(<<"c", "h", "a", "n", "g", "e">>),
     Text(<<"s", "h", "i", "f", "t">>),
     Text(<<"s", "h", "i", "f", "t", "e", "d">>),
     Text(<<"w", "e", "e", "k", " ", "o", "v", "e", "r", " ", "w", "e", "e", "k">>),
     Text(<<"m", "o", "n", "t", "h", " ", "o", "v", "e", "r", " ", "m", "o", "n", "t", "h">>),
     Text(<<"y", "e", "a", "r", " ", "o", "v", "e", "r", " ", "y", "e", "a", "r">>),
     Text(<<"l", "o", "s", "s">>),
     Text(<<"l", "o", "s", "s", "e", "s">>),
     Text(<<"w", "h", "y">>),
     Text(<<"i", "n", "s", "i", "g", "h", "t", "s">>),
     Text(<<"i", "n", "s", "i", "g", "h", "t">>),
     Text(<<"t", "r", "e", "n", "d">>),
     Text(<<"t", "r", "e", "n", "d", "s">>),
     Text(<<"t", "r", "e", "n", "d", "i", "n", "g">>),
     Text(<<"a", "n", "a", "l", "y", "z", "e">>),
     Text(<<"a", "n", "a", "l", "y", "s", "i", "s">>),
     Text(<<"w", "h", "a", "t", " ", "h", "a", "p", "p", "e", "n", "e", "d">>),
     Text(<<"d", "r", "o", "p", "p", "e", "d">>),
     Text(<<"d", "e", "c", "r", "e", "a", "s", "e", "d">>),
     Text(<<"i", "n", "c", "r", "e", "a", "s", "e", "d">>)}

goal_keywords ==
    {Text(<<"g", "o", "a", "l">>),
     Text(<<"g", "o", "a", "l", "s">>),
     Text(<<"s", "e", "t", " ", "a", " ", "g", "o", "a", "l">>),
     Text(<<"c", "r", "e", "a", "t", "e", " ", "g", "o", "a", "l">>),
     Text(<<"t", "r", "a", "c", "k", " ", "g", "o", "a", "l">>),
     Text(<<"m", "y", " ", "g", "o", "a", "l">>),
     Text(<<"o", "b", "j", "e", "c", "t", "i", "v", "e">>),
     Text(<<"o", "b", "j", "e", "c", "t", "i", "v", "e", "s">>),
     Text(<<"t", "a", "r", "g", "e", "t">>),
     Text(<<"t", "a", "r", "g", "e", "t", "s">>)}

_has_insight_keywords(question) ==
    LET question_lower == Lower(question)
    IN \E keyword \in INSIGHT_KEYWORDS : Contains(keyword, question_lower)

_is_hardcoded(question) ==
    LET question_normalized == Strip(Lower(question))
    IN question_normalized \in HARDCODED_QUESTIONS

_is_goal_query(question) ==
    LET question_lower == Strip(Lower(question))
    IN \E keyword \in goal_keywords : Contains(keyword, question_lower)

\* the characters that match a letter of the pattern under re.IGNORECASE
IgnoreCase ==
    (65 :> {65, 97}) @@ (83 :> {83, 115, 383}) @@ (73 :> {73, 105, 304, 305}) @@
    (78 :> {78, 110}) @@ (115 :> {83, 115, 383})

\* re.search(r'\bASINs?\b', question, re.IGNORECASE)
has_asin_word(question) ==
    \E i \in 1..Len(question) :
        /\ BoundaryBefore(question, i)
        /\ i + 3 <= Len(question)
        /\ \A j \in 1..4 : question[i + j - 1] \in IgnoreCase[Text(<<"A", "S", "I", "N">>)[j]]
        /\ \/ /\ i + 4 <= Len(question)
              /\ question[i + 4] \in IgnoreCase[Ord["s"]]
              /\ BoundaryBefore(question, i + 5)
           \/ BoundaryBefore(question, i + 4)


_is_asin_query(question, s) ==
    \/ TruthySeq(Get(s, "asin"))
    \/ TruthySeq(Get(s, "_http_asin"))
    \/ has_asin_word(question)

\* the binary model call either raises or answers with response.content
ModelRaises == [raised |-> TRUE]
ModelAnswers(content) == [raised |-> FALSE, content |-> content]

\* _classify_metrics_vs_other(question), given the answer of its model call
_classify_metrics_vs_other(content) ==
    LET question_type == Lower(Strip(content))
    IN IF question_type = Text(<<"m", "e", "t", "r", "i", "c", "s", "_", "q", "u", "e", "r", "y">>) THEN "metrics_query"
       ELSE IF question_type = Text(<<"o", "t", "h", "e", "r", "_", "q", "u", "e", "r", "y">>) THEN "other_query"
       ELSE "other_query"

\* the outcome of the node: the returned state, or an exception leaving the node
Returned(s, called) == [raised |-> FALSE, state |-> s, llm_called |-> called]
Escaped(s, called) == [raised |-> TRUE, state |-> s, llm_called |-> called]

\* a variant of the node that tests the product rule before the goal rules
classify_question_node_ProductFirst(s, llm) ==
    LET question == GetD(s, "question", <<>>)
        interaction_type == GetD(s, "interaction_type", Some(""))
    IN IF _is_asin_query(question, s)
       THEN Returned(Set(s, "question_type", "asin_product"), FALSE)
       ELSE IF interaction_type = Some("goal_created")
       THEN Returned(Set(s, "question_type", "goal_query"), FALSE)
       ELSE IF interaction_type = Some("goal_created_failed")
       THEN Returned(Set(s, "question_type", "goal_query"), FALSE)
       ELSE IF _is_goal_query(question)
       THEN Returned(Set(s, "question_type", "goal_query"), FALSE)
       ELSE IF Get(s, "interaction_type") = Some("dashboard_load")
       THEN Returned(Set(s, "question_type", "dashboard_load"), FALSE)
       ELSE IF _is_hardcoded(question)
       THEN Returned(Set(s, "question_type", "hardcoded"), FALSE)
       ELSE IF TruthySeq(Get(s, "compare_date_start")) \/ _has_insight_keywords(question)
       THEN Returned(Set(s, "question_type", "insight_query"), FALSE)
       ELSE IF llm.raised
       THEN Escaped(s, TRUE)
       ELSE Returned(Set(s, "question_type", _classify_metrics_vs_other(llm.content)), TRUE)

\* a variant of the node that tests the insight rule before the hardcoded rule
classify_question_node_InsightFirst(s, llm) ==
    LET question == GetD(s, "question", <<>>)
        interaction_type == GetD(s, "interaction_type", Some(""))
    IN IF interaction_type = Some("goal_created")
       THEN Returned(Set(s, "question_type", "goal_query"), FALSE)
       ELSE IF interaction_type = Some("goal_created_failed")
       THEN Returned(Set(s, "question_type", "goal_query"), FALSE)
       ELSE IF _is_goal_query(question)
       THEN Returned(Set(s, "question_type", "goal_query"), FALSE)
       ELSE IF Get(s, "interaction_type") = Some("dashboard_load")
       THEN Returned(Set(s, "question_type", "dashboard_load"), FALSE)
       ELSE IF TruthySeq(Get(s, "compare_date_start")) \/ _has_insight_keywords(question)
       THEN Returned(Set(s, "question_type", "insight_query"), FALSE)
       ELSE IF _is_hardcoded(question)
       THEN Returned(Set(s, "question_type", "hardcoded"), FALSE)
       ELSE IF _is_asin_query(question, s)
       THEN Returned(Set(s, "question_type", "asin_product"), FALSE)
       ELSE IF llm.raised
       THEN Escaped(s, TRUE)
       ELSE Returned(Set(s, "question_type", _classify_metrics_vs_other(llm.content)), TRUE)

classify_question_node(s, llm) ==
    LET question == GetD(s, "question", <<>>)
        interaction_type == GetD(s, "interaction_type", Some(""))
    IN IF interaction_type = Some("goal_created")
       THEN Returned(Set(s, "question_type", "goal_query"), FALSE)
       ELSE IF interaction_type = Some("goal_created_failed")
       THEN Returned(Set(s, "question_type", "goal_query"), FALSE)
       ELSE IF _is_goal_query(question)
       THEN Returned(Set(s, "question_type", "goal_query"), FALSE)
       ELSE IF Get(s, "interaction_type") = Some("dashboard_load")
       THEN Returned(Set(s, "question_type", "dashboard_load"), FALSE)
       ELSE IF _is_hardcoded(question)
       THEN Returned(Set(s, "question_type", "hardcoded"), FALSE)
       ELSE IF _is_asin_query(question, s)
       THEN Returned(Set(s, "question_type", "asin_product"), FALSE)
       ELSE IF TruthySeq(Get(s, "compare_date_start")) \/ _has_insight_keywords(question)
       THEN Returned(Set(s, "question_type", "insight_query"), FALSE)
       ELSE IF llm.raised
       THEN Escaped(s, TRUE)
       ELSE Returned(Set(s, "question_type", _classify_metrics_vs_other(llm.content)), TRUE)

\* a variant of the edge that derives the handler's name from the category
route_by_question_type_ByName(s) ==
    LET question_type == GetD(s, "question_type", "other")
    IN CASE question_type = "metrics_query" -> "metrics_query_handler"
         [] question_type = "compare_query" -> "compare_query_handler"
         [] question_type = "asin_product" -> "asin_product_handler"
         [] question_type = "hardcoded" -> "hardcoded_response"
         [] question_type = "other" -> "other_handler"
         [] question_type = "goal_query" -> "goal_query_handler"
         [] question_type = "insight_query" -> "insight_query_handler"
         [] OTHER -> "other_handler"

\* route_by_question_type(state): the handler node that runs next
route_by_question_type(s) ==
    LET question_type == GetD(s, "question_type", "other")
    IN CASE question_type = "metrics_query" -> "metrics_query_handler"
         [] question_type = "compare_query" -> "compare_query_handler"
         [] question_type = "asin_product" -> "asin_product_handler"
         [] question_type = "hardcoded" -> "hardcoded_response"
         [] question_type = "other" -> "other_handler"
         [] OTHER -> "other_handler"

-----------------------------------------------------------------------------
(* Node 2: message_analyzer                                                *)

\* the analyzer's model call either raises or returns a MessageAnalysis
AnalyzerRaises == [raised |-> TRUE]
AnalyzerReturns(a) == [raised |-> FALSE, analysis |-> a]

\* the keys message_analyzer_node writes
AnalyzerKeys ==
    {"_date_start_label", "_date_end_label",
     "_compare_date_start_label", "_compare_date_end_label",
     "_explicit_date_start", "_explicit_date_end",
     "_explicit_compare_start", "_explicit_compare_end",
     "_custom_days_count", "asin", "question_type"}

message_analyzer_node(s, outcome) ==
    LET question == s["question"]
    IN IF outcome.raised
       THEN \* except-branch: safe defaults
            [x \in (DOMAIN s) \cup AnalyzerKeys |->
                CASE x \in {"_date_start_label", "_date_end_label"} -> Some("default")
                  [] x = "question_type" -> "metrics_query"
                  [] x \in AnalyzerKeys \ {"_date_start_label", "_date_end_label",
                                           "question_type"} -> None
                  [] OTHER -> s[x]]
       ELSE LET a == outcome.analysis
                asin == checked_asin(question, a.asin)
                question_type == IF TruthySeq(asin) /\ a.question_type = "metrics_query"
                                 THEN "asin_product"
                                 ELSE a.question_type
            IN [x \in (DOMAIN s) \cup AnalyzerKeys |->
                   CASE x = "_date_start_label" -> Some(a.date_start_label)
                     [] x = "_date_end_label" -> Some(a.date_end_label)
                     [] x = "_compare_date_start_label" -> a.compare_date_start_label
                     [] x = "_compare_date_end_label" -> a.compare_date_end_label
                     [] x = "_explicit_date_start" -> a.explicit_date_start
                     [] x = "_explicit_date_end" -> a.explicit_date_end
                     [] x = "_explicit_compare_start" -> a.explicit_compare_start
                     [] x = "_explicit_compare_end" -> a.explicit_compare_end
                     [] x = "_custom_days_count" -> a.custom_days_count
                     [] x = "asin" -> asin
                     [] x = "question_type" -> question_type
                     [] OTHER -> s[x]]

-----------------------------------------------------------------------------
(* The handler nodes                                                       *)

\* the outcome of a handler: the returned state, or an exception leaving the node
HandlerReturned(s) == [raised |-> FALSE, state |-> s]
HandlerRaised(s) == [raised |-> TRUE, state |-> s]

\* the answers of hardcoded_response_node
AugustToSeptemberAnswer ==
    Text(<<"P", "e", "r", "f", "o", "r", "m", "a", "n", "c", "e", " ", "I", "n", "s", "i", "g", "h", "t", "s", ":",
      "\n", "\n", "S", "t", "r", "o", "n", "g", "e", "s", "t", " ", "i", "m", "p", "r", "o", "v", "e", "m", "e",
      "n", "t", " ", "h", "a", "p", "p", "e", "n", "s", " ", "d", "u", "r", "i", "n", "g", " ", "S", "e", "p", " ",
      "0", "1", " ", "t", "o", " ", "0", "5", ",", " ", "2", "0", "2", "5", " ", "a", "n", "d", " ", "t", "h", "i",
      "s", " ", "i", "s", " ", "b", "e", "c", "a", "u", "s", "e", " ", "y", "o", "u", " ", "o", "p", "t", "i", "m",
      "i", "z", "e", "d", " ", "y", "o", "u", "r", " ", "A", "C", "O", "S", " ", "(", "a", "d", "v", "e", "r", "t",
      "i", "s", "i", "n", "g", " ", "c", "o", "s", "t", " ", "o", "f", " ", "s", "a", "l", "e", ")", " ", "t", "o",
      " ", "2", "0", "%", " ", "d", "u", "r", "i", "n", "g", " ", "t", "h", "a", "t", " ", "p", "e", "r", "i", "o",
      "d", "\n", "Y", "o", "u", "r", " ", "n", "e", "t", " ", "p", "r", "o", "f", "i", "t", " ", "i", "n", "c",
      "r", "e", "a", "s", "e", "d", " ", "b", "y", " ", "9", ".", "2", "%", " ", "f", "r", "o", "m", " ", "A", "u",
      "g", "u", "s", "t", " ", "t", "o", " ", "S", "e", "p", "t", "e", "m", "b", "e", "r", ",", " ", "a", "n", "d",
      " ", "t", "h", "i", "s", " ", "i", "s", " ", "b", "e", "c", "a", "u", "s", "e", " ", "y", "o", "u", " ", "r",
      "e", "d", "u", "c", "e", "d", " ", "y", "o", "u", "r", " ", "T", "O", "S", " ", "I", "S", " ", "(", "T", "o",
      "p", " ", "o", "f", " ", "S", "e", "a", "r", "c", "h", " ", "I", "m", "p", "r", "e", "s", "s", "i", "o", "n",
      " ", "S", "h", "a", "r", "e", ")", " ", "f", "r", "o", "m", " ", "1", "8", "%", " ", "i", "n", " ", "l", "a",
      "t", "e", " ", "A", "u", "g", "u", "s", "t", " ", "t", "o", " ", "1", "5", "%", " ", "o", "n", " ", "S", "e",
      "p", " ", "0", "7", ",", " ", "2", "0", "2", "5", "\n", "\n", "Y", "o", "u", "r", " ", "s", "t", "o", "r",
      "e", " ", "a", "l", "s", "o", " ", "h", "a", "s", " ", "o", "p", "t", "i", "m", "i", "z", "a", "t", "i", "o",
      "n", " ", "p", "o", "t", "e", "n", "t", "i", "a", "l", ":", "\n", "Y", "o", "u", " ", "c", "o", "u", "l",
      "d", " ", "h", "a", "v", "e", " ", "m", "a", "d", "e", " ", "$", "4", "8", ",", "2", "9", "0", " ", "(", "n",
      "e", "t", " ", "p", "r", "o", "f", "i", "t", " ", "g", "a", "i", "n", ")", " ", "(", "t", "h", "a", "t", "'",
      "s", " ", "a", " ", "1", "5", "%", " ", "i", "n", "c", "r", "e", "a", "s", "e", ")", " ", "f", "r", "o", "m",
      " ", "A", "u", "g", " ", "1", "5", " ", "t", "o", " ", "S", "e", "p", " ", "3", "0", ",", " ", "2", "0", "2",
      "5", ",", " ", "i", "f", " ", "y", "o", "u", " ", "h", "a", "d", " ", "a", "d", "j", "u", "s", "t", "e", "d",
      " ", "y", "o", "u", "r", " ", "A", "C", "O", "S", " ", "t", "o", " ", "2", "0", "%", " ", "a", "n", "d", " ",
      "T", "O", "S", " ", "I", "S", " ", "t", "o", " ", "7", ".", "8", "%", " ", "a", "t", " ", "A", "u", "g", " ",
      "1", "5", ",", " ", "2", "0", "2", "5">>)
PerformanceInsightsAnswer ==
    Text(<<"P", "e", "r", "f", "o", "r", "m", "a", "n", "c", "e", " ", "I", "n", "s", "i", "g", "h", "t", "s", ":",
      "\n", "\n", "-", " ", "S", "t", "r", "o", "n", "g", "e", "s", "t", " ", "i", "m", "p", "r", "o", "v", "e",
      "m", "e", "n", "t", " ", "d", "u", "r", "i", "n", "g", " ", "S", "e", "p", " ", "0", "1", "-", "0", "5", ",",
      " ", "2", "0", "2", "5", " ", "(", "o", "p", "t", "i", "m", "i", "z", "e", "d", " ", "A", "C", "O", "S", " ",
      "t", "o", " ", "2", "0", "%", ")", "\n", "-", " ", "N", "e", "t", " ", "p", "r", "o", "f", "i", "t", " ",
      "i", "n", "c", "r", "e", "a", "s", "e", "d", " ", "9", ".", "2", "%", " ", "f", "r", "o", "m", " ", "A", "u",
      "g", "u", "s", "t", " ", "t", "o", " ", "S", "e", "p", "t", "e", "m", "b", "e", "r", " ", "(", "r", "e", "d",
      "u", "c", "e", "d", " ", "T", "O", "S", " ", "I", "S", " ", "f", "r", "o", "m", " ", "1", "8", "%", " ", "t",
      "o", " ", "1", "5", "%", ")", "\n", "\n", "O", "p", "t", "i", "m", "i", "z", "a", "t", "i", "o", "n", " ",
      "p", "o", "t", "e", "n", "t", "i", "a", "l", ":", " ", "Y", "o", "u", " ", "c", "o", "u", "l", "d", " ", "h",
      "a", "v", "e", " ", "m", "a", "d", "e", " ", "$", "4", "8", ",", "2", "9", "0", " ", "a", "d", "d", "i", "t",
      "i", "o", "n", "a", "l", " ", "n", "e", "t", " ", "p", "r", "o", "f", "i", "t", " ", "(", "1", "5", "%", " ",
      "i", "n", "c", "r", "e", "a", "s", "e", ")", " ", "f", "r", "o", "m", " ", "A", "u", "g", " ", "1", "5", " ",
      "t", "o", " ", "S", "e", "p", " ", "3", "0", ",", " ", "2", "0", "2", "5", ",", " ", "i", "f", " ", "y", "o",
      "u", " ", "h", "a", "d", " ", "a", "d", "j", "u", "s", "t", "e", "d", " ", "A", "C", "O", "S", " ", "t", "o",
      " ", "2", "0", "%", " ", "a", "n", "d", " ", "T", "O", "S", " ", "I", "S", " ", "t", "o", " ", "7", "-", "8",
      "%", ".">>)
HighestDayAnswer ==
    Text(<<"Y", "o", "u", "r", " ", "h", "i", "g", "h", "e", "s", "t", " ", "p", "e", "r", "f", "o", "r", "m", "a", "n",
      "c", "e", " ", "d", "a", "y", " ", "i", "n", " ", "S", "e", "p", "t", "e", "m", "b", "e", "r", " ", "w", "a",
      "s", " ", "S", "e", "p", " ", "2", ",", " ", "2", "0", "2", "5">>)
NotSureAnswer ==
    Text(<<"I", "'", "m", " ", "n", "o", "t", " ", "s", "u", "r", "e", " ", "h", "o", "w", " ", "t", "o", " ", "a", "n",
      "s", "w", "e", "r", " ", "t", "h", "a", "t", " ", "q", "u", "e", "s", "t", "i", "o", "n", ".", " ", "P", "l",
      "e", "a", "s", "e", " ", "t", "r", "y", " ", "r", "e", "p", "h", "r", "a", "s", "i", "n", "g", ".">>)

\* hardcoded_response_node of classifier_route_node/hardcoded_response, the one
\* that app.graph.nodes exports to the graph
hardcoded_response_node(s) ==
    LET question_lower == Lower(s["question"])
    IN IF Contains(Text(<<"c", "o", "m", "p", "a", "r", "e", " ", "m", "y", " ", "s", "t", "o", "r", "e", " ", "p", "e", "r", "f", "o", "r", "m", "a", "n", "c", "e", " ", "i", "n", " ", "a", "u", "g", "u", "s", "t", " ", "o", "v", "e", "r", " ", "a", "u", "g", "u", "s", "t", " ", "t", "o", " ", "s", "e", "p", "t", "e", "m", "b", "e", "r">>),
                   question_lower)
       THEN Set(s, "response", AugustToSeptemberAnswer)
       ELSE IF \/ Contains(Text(<<"p", "e", "r", "f", "o", "r", "m", "a", "n", "c", "e", " ", "i", "n", "s", "i", "g", "h", "t">>), question_lower)
               \/ Contains(Text(<<"p", "e", "r", "f", "o", "r", "m", "a", "n", "c", "e", " ", "c", "o", "m", "p", "a", "r", "e">>), question_lower)
       THEN Set(s, "response", PerformanceInsightsAnswer)
       ELSE IF Contains(Text(<<"h", "i", "g", "h", "e", "s", "t", " ", "p", "e", "r", "f", "o", "r", "m", "a", "n", "c", "e">>), question_lower)
       THEN Set(s, "response", HighestDayAnswer)
       ELSE Set(s, "response", NotSureAnswer)

\* other_handler/prompt.py
GREETING_RESPONSES ==
    <<Text(<<"H", "i", ",", " ", "W", "e", "l", "c", "o", "m", "e", " ", "t", "o", " ", "N", "y", "l", "e", ".", " ", "H",
        "o", "w", " ", "c", "a", "n", " ", "I", " ", "a", "s", "s", "i", "s", "t", " ", "y", "o", "u", " ", "w", "i",
        "t", "h", " ", "y", "o", "u", "r", " ", "e", "C", "o", "m", "m", "e", "r", "c", "e", " ", "m", "e", "t", "r",
        "i", "c", "s", " ", "t", "o", "d", "a", "y", "?">>),
      Text(<<"H", "i", " ", "t", "h", "e", "r", "e", "!", " ", "W", "h", "a", "t", " ", "w", "o", "u", "l", "d", " ", "y",
        "o", "u", " ", "l", "i", "k", "e", " ", "t", "o", " ", "k", "n", "o", "w", "?">>),
      Text(<<"H", "e", "y", "!", " ", "R", "e", "a", "d", "y", " ", "t", "o", " ", "h", "e", "l", "p", " ", "w", "i", "t",
        "h", " ", "y", "o", "u", "r", " ", "s", "e", "l", "l", "e", "r", " ", "a", "n", "a", "l", "y", "t", "i", "c",
        "s", ".">>),
      Text(<<"G", "o", "o", "d", " ", "t", "o", " ", "s", "e", "e", " ", "y", "o", "u", "!", " ", "W", "h", "a", "t", " ",
        "c", "a", "n", " ", "I", " ", "h", "e", "l", "p", " ", "w", "i", "t", "h", "?">>)>>
ABOUT_SERVICE_RESPONSE ==
    Text(<<"I", "'", "m", " ", "y", "o", "u", "r", " ", "A", "I", " ", "a", "s", "s", "i", "s", "t", "a", "n", "t", " ",
      "f", "o", "r", " ", "N", "y", "l", "e", ",", " ", "a", "n", " ", "i", "n", "t", "e", "l", "l", "i", "g", "e",
      "n", "t", " ", "o", "p", "e", "r", "a", "t", "i", "n", "g", " ", "s", "y", "s", "t", "e", "m", " ", "d", "e",
      "s", "i", "g", "n", "e", "d", " ", "f", "o", "r", " ", "e", "C", "o", "m", "m", "e", "r", "c", "e", " ", "g",
      "r", "o", "w", "t", "h", ".", " ", "I", " ", "h", "e", "l", "p", " ", "y", "o", "u", " ", "u", "n", "d", "e",
      "r", "s", "t", "a", "n", "d", " ", "y", "o", "u", "r", " ", "A", "m", "a", "z", "o", "n", " ", "s", "e", "l",
      "l", "e", "r", " ", "m", "e", "t", "r", "i", "c", "s", ",", " ", "a", "n", "a", "l", "y", "z", "e", " ", "p",
      "e", "r", "f", "o", "r", "m", "a", "n", "c", "e", " ", "d", "a", "t", "a", ",", " ", "i", "d", "e", "n", "t",
      "i", "f", "y", " ", "o", "p", "p", "o", "r", "t", "u", "n", "i", "t", "i", "e", "s", ",", " ", "a", "n", "d",
      " ", "a", "n", "s", "w", "e", "r", " ", "q", "u", "e", "s", "t", "i", "o", "n", "s", " ", "a", "b", "o", "u",
      "t", " ", "y", "o", "u", "r", " ", "b", "u", "s", "i", "n", "e", "s", "s", " ", "o", "p", "e", "r", "a", "t",
      "i", "o", "n", "s", ".", " ", "U", "n", "l", "i", "k", "e", " ", "t", "r", "a", "d", "i", "t", "i", "o", "n",
      "a", "l", " ", "a", "n", "a", "l", "y", "t", "i", "c", "s", " ", "t", "o", "o", "l", "s", " ", "t", "h", "a",
      "t", " ", "j", "u", "s", "t", " ", "s", "h", "o", "w", " ", "d", "a", "t", "a", ",", " ", "I", " ", "c", "a",
      "n", " ", "p", "r", "o", "v", "i", "d", "e", " ", "s", "t", "r", "a", "t", "e", "g", "i", "c", " ", "i", "n",
      "s", "i", "g", "h", "t", "s", " ", "a", "n", "d", " ", "a", "c", "t", "i", "o", "n", "a", "b", "l", "e", " ",
      "r", "e", "c", "o", "m", "m", "e", "n", "d", "a", "t", "i", "o", "n", "s", " ", "t", "a", "i", "l", "o", "r",
      "e", "d", " ", "t", "o", " ", "y", "o", "u", "r", " ", "s", "p", "e", "c", "i", "f", "i", "c", " ", "s", "i",
      "t", "u", "a", "t", "i", "o", "n", ".", " ", "W", "h", "a", "t", " ", "w", "o", "u", "l", "d", " ", "y", "o",
      "u", " ", "l", "i", "k", "e", " ", "t", "o", " ", "e", "x", "p", "l", "o", "r", "e", "?">>)

\* other_handler_node(state), given the answer of its sub-classification call, the
\* index random.choice picks in GREETING_RESPONSES, and the answer of its knowledge call
other_handler_node(s, classification, greeting, knowledge) ==
    IF classification.raised THEN HandlerRaised(s)
    ELSE LET query_type == Lower(Strip(classification.content))
         IN IF query_type = Text(<<"g", "r", "e", "e", "t", "i", "n", "g">>)
            THEN HandlerReturned(Set(s, "response", GREETING_RESPONSES[greeting]))
            ELSE IF query_type = Text(<<"a", "b", "o", "u", "t", "_", "s", "e", "r", "v", "i", "c", "e">>)
            THEN HandlerReturned(Set(s, "response", ABOUT_SERVICE_RESPONSE))
            ELSE IF query_type = Text(<<"k", "n", "o", "w", "l", "e", "d", "g", "e">>)
            THEN IF knowledge.raised THEN HandlerRaised(s)
                 ELSE HandlerReturned(Set(s, "response", Strip(knowledge.content)))
            ELSE HandlerReturned(Set(s, "response", GREETING_RESPONSES[greeting]))

\* the handlers that run an agent: metrics_query_handler_node (lines 85-93),
\* compare_query_handler_node (lines 72-84), asin_product_handler_node (lines 71-83)
AgentHandlers == {"metrics_query_handler", "compare_query_handler", "asin_product_handler"}

\* the agent run either raises or ends with a last message
AgentRaises == [raised |-> TRUE]
AgentAnswers(content) == [raised |-> FALSE, content |-> content]

\* state["response"] = result["messages"][-1].content
agent_handler_node(s, outcome) ==
    IF outcome.raised THEN HandlerRaised(s)
    ELSE HandlerReturned(Set(s, "response", outcome.content))

\* where a handler is while its agent runs
Awaiting(node) ==
    CASE node = "metrics_query_handler" -> "metrics_query_handler.ainvoke"
      [] node = "compare_query_handler" -> "compare_query_handler.invoke"
      [] node = "asin_product_handler" -> "asin_product_handler.ainvoke"

\* _current_state = {} at import, in compare_query_handler/node.py (line 14) and in
\* metrics_query_handler/node.py (line 17); None stands for the empty dict
NoState == [compare_query_handler |-> None, metrics_query_handler |-> None]

-----------------------------------------------------------------------------
(* Inputs: requests, clocks and the answers of the model calls             *)

B08XYZ1234 == Text(<<"B", "0", "8", "X", "Y", "Z", "1", "2", "3", "4">>)

\* utterances sent through the whole graph
PipelineUtterances ==
    {Text(<<"W", "h", "a", "t", " ", "i", "s", " ", "m", "y", " ", "A", "C", "O", "S", "?">>),
     Text(<<"s", "a", "l", "e", "s", " ", "o", "f", " ", "b", "0", "8", "x", "y", "z", "1", "2", "3", "4", " ", "v", "s", " ", "l", "a", "s", "t", " ", "w", "e", "e", "k">>),
     Text(<<"y", "e", "s", "\r", "\n">>),
     \* "ventes de B08XYZ1234" and U+00E9 (e with acute accent), a word character
     Text(<<"v", "e", "n", "t", "e", "s", " ", "d", "e", " ", "B", "0", "8", "X", "Y", "Z", "1", "2", "3", "4">>) \o <<233>>}

\* utterances given to the classifier
ClassifierUtterances ==
    {Text(<<"W", "h", "a", "t", " ", "i", "s", " ", "m", "y", " ", "A", "C", "O", "S", "?">>),
     Text(<<"h", "i">>),
     <<>>,
     Text(<<"s", "h", "o", "w", " ", "m", "e", " ", "p", "e", "r", "f", "o", "r", "m", "a", "n", "c", "e", " ", "i", "n", "s", "i", "g", "h", "t", "s">>),
     Text(<<" ", " ", "S", "h", "o", "w", " ", "M", "e", " ", "P", "e", "r", "f", "o", "r", "m", "a", "n", "c", "e", " ", "I", "n", "s", "i", "g", "h", "t", "s", " ", "\n">>),
     Text(<<"s", "h", "o", "w", " ", "m", "e", " ", "p", "e", "r", "f", "o", "r", "m", "a", "n", "c", "e", " ", "i", "n", "s", "i", "g", "h", "t", "s", " ", "t", "o", "d", "a", "y">>),
     Text(<<"Y", "E", "S">>),
     Text(<<"y", "e", "s", "\r", "\n">>),
     Text(<<"C", "o", "m", "p", "a", "r", "e", " ", "A", "u", "g", "u", "s", "t", " ", "v", "s", " ", "S", "e", "p", "t", "e", "m", "b", "e", "r">>),
     Text(<<"W", "h", "a", "t", " ", "a", "r", "e", " ", "s", "a", "l", "e", "s", " ", "f", "o", "r", " ", "A", "S", "I", "N", " ", "B", "0", "B", "5", "H", "N", "6", "5", "Q", "Q", "?">>),
     Text(<<"t", "o", "p", " ", "a", "s", "i", "n", "s">>),
     Text(<<"s", "a", "l", "e", "s", " ", "o", "f", " ", "b", "a", "s", "i", "n", "s">>),
     Text(<<"m", "y", " ", "g", "o", "a", "l", " ", "f", "o", "r", " ", "B", "0", "8", "X", "Y", "Z", "1", "2", "3", "4">>),
     Text(<<"S", "a", "l", "e", "s", " ", "T", "A", "R", "G", "E", "T", " ", "f", "o", "r", " ", "A", "S", "I", "N", "s">>),
     \* "yes" between U+2003 (em space) and U+3000 (ideographic space); "top ASIN" and U+00E9;
     \* "my a", U+017F (long s), U+0130 (capital I with dot above), "ns"
     <<8195>> \o Text(<<"y", "e", "s">>) \o <<12288>>,
     Text(<<"t", "o", "p", " ", "A", "S", "I", "N">>) \o <<233>>,
     Text(<<"m", "y", " ", "a">>) \o <<383, 304>> \o Text(<<"n", "s">>)}

InteractionTypes ==
    {None, Some("dashboard_load"), Some("goal_created"), Some("goal_created_failed"),
     Some("chat")}

\* the request's clock: the UTC date, and the Pacific date (the same day or the day before)
Anchors == {<<2025, 12, 22>>, <<2024, 3, 1>>}
Clocks == {[utc |-> ToOrdinal(a), pst |-> ToOrdinal(a) - back] : a \in Anchors, back \in {0, 1}}
PipelineClocks == {c \in Clocks : c.utc = ToOrdinal(<<2025, 12, 22>>)}

Extraction(sl, el, csl, cel, es, ee, ecs, ece, cd, ccd, asin) ==
    [date_start_label |-> sl, date_end_label |-> el,
     compare_date_start_label |-> csl, compare_date_end_label |-> cel,
     explicit_date_start |-> es, explicit_date_end |-> ee,
     explicit_compare_start |-> ecs, explicit_compare_end |-> ece,
     custom_days_count |-> cd, custom_compare_days_count |-> ccd,
     asin |-> asin]

\* LabelExtraction values the extractor's model call may return
Extractions ==
    {Extraction("today", "today", None, None, None, None, None, None, None, None, None),
     Extraction("past_days", "past_days", None, None, None, None, None, None,
                Some(23), None, Some(B08XYZ1234)),
     Extraction("december", "december", Some("september"), Some("september"),
                None, None, None, None, None, None, Some(Text(<<"X", "Y", "Z">>))),
     Extraction("explicit_date", "explicit_date", None, None,
                Some(<<2025, 12, 1>>), Some(<<2025, 12, 25>>), None, None, None, None, None),
     Extraction("past_7_days", "past_7_days", Some("past_days"), Some("past_days"),
                None, None, None, None, None, None, None)}

\* str(e) of the exception a model call raises: the message of a timeout of the
\* client, and the empty text of an exception constructed without arguments
ExceptionMessages ==
    {Text(<<"R", "e", "q", "u", "e", "s", "t", " ", "t", "i", "m", "e", "d", " ", "o", "u", "t", ".">>),
     <<>>}

ExtractorOutcomes ==
    {ExtractorRaises(e) : e \in ExceptionMessages} \cup
    {ExtractorReturns(e) : e \in Extractions}

ValidatorOutcomes ==
    {ValidatorRaises(e) : e \in ExceptionMessages} \cup
    {ValidatorReturns(TRUE, None),
     ValidatorReturns(FALSE, Some(Text(<<"d", "a", "t", "e", "_", "s", "t", "a", "r", "t", "_", "l", "a", "b", "e", "l",
                " ", "s", "h", "o", "u", "l", "d", " ", "b", "e", " ", "'", "t", "o", "d", "a",
                "y", "'">>))),
     ValidatorReturns(FALSE, None)}

ModelOutcomes ==
    {ModelRaises,
     ModelAnswers(Text(<<"m", "e", "t", "r", "i", "c", "s", "_", "q", "u", "e", "r", "y">>)),
     ModelAnswers(Text(<<" ", "M", "e", "t", "r", "i", "c", "s", "_", "Q", "u", "e", "r", "y", "\r", "\n">>)),
     ModelAnswers(Text(<<"o", "t", "h", "e", "r", "_", "q", "u", "e", "r", "y">>)),
     ModelAnswers(Text(<<"i", "n", "v", "a", "l", "i", "d", "_", "t", "y", "p", "e">>)),
     ModelAnswers(<<>>),
     \* "Metrics_Query" between U+2003 (em space) and U+2029 (paragraph separator)
     ModelAnswers(<<8195>> \o Text(<<"M", "e", "t", "r", "i", "c", "s", "_", "Q", "u", "e", "r", "y">>) \o <<8233>>)}

\* initial_state of main.py for one request
InitialState(question, interaction_type, http_asin) ==
    [question |-> question,
     interaction_type |-> interaction_type,
     _http_date_start |-> None, _http_date_end |-> None,
     _http_compare_date_start |-> None, _http_compare_date_end |-> None,
     _http_asin |-> http_asin,
     _date_start_label |-> None, _date_end_label |-> None,
     _compare_date_start_label |-> None, _compare_date_end_label |-> None,
     _explicit_date_start |-> None, _explicit_date_end |-> None,
     _explicit_compare_start |-> None, _explicit_compare_end |-> None,
     _custom_days_count |-> None, _custom_compare_days_count |-> None,
     date_start |-> None, date_end |-> None,
     compare_date_start |-> None, compare_date_end |-> None,
     asin |-> None,
     question_type |-> "",
     response |-> <<>>]

MessageAnalysis(sl, el, csl, cel, es, ee, ecs, ece, cd, asin, qt) ==
    [date_start_label |-> sl, date_end_label |-> el,
     compare_date_start_label |-> csl, compare_date_end_label |-> cel,
     explicit_date_start |-> es, explicit_date_end |-> ee,
     explicit_compare_start |-> ecs, explicit_compare_end |-> ece,
     custom_days_count |-> cd, asin |-> asin, question_type |-> qt]

\* MessageAnalysis values the analyzer's model call may return
Analyses ==
    {MessageAnalysis("today", "today", None, None, None, None, None, None, None, None,
                     "metrics_query"),
     MessageAnalysis("past_days", "past_days", None, None, None, None, None, None,
                     Some(23), Some(B08XYZ1234), "metrics_query"),
     MessageAnalysis("december", "december", Some("september"), Some("september"),
                     None, None, None, None, None, Some(Text(<<"X", "Y", "Z">>)), "compare_query")}

AnalyzerOutcomes == {AnalyzerRaises} \cup {AnalyzerReturns(a) : a \in Analyses}

\* the outcomes of an agent run
AgentOutcomes ==
    {AgentRaises,
     AgentAnswers(Text(<<"Y", "o", "u", "r", " ", "A", "C", "O", "S", " ", "f", "o", "r", " ", "t", "h", "e", " ", "p", "e", "r", "i",
      "o", "d", " ", "i", "s", " ", "2", "3", ".", "4", "%", ".">>))}

\* the answers of other_handler's sub-classification call and of its knowledge call
SubClassifications ==
    {ModelRaises,
     ModelAnswers(Text(<<"g", "r", "e", "e", "t", "i", "n", "g">>)),
     ModelAnswers(Text(<<" ", "A", "b", "o", "u", "t", "_", "S", "e", "r", "v", "i", "c", "e", "\r", "\n">>)),
     ModelAnswers(Text(<<"k", "n", "o", "w", "l", "e", "d", "g", "e">>)),
     ModelAnswers(Text(<<"s", "m", "a", "l", "l", "t", "a", "l", "k">>)),
     \* "Knowledge" between U+2003 and U+3000
     ModelAnswers(<<8195>> \o Text(<<"K", "n", "o", "w", "l", "e", "d", "g", "e">>) \o <<12288>>)}

KnowledgeOutcomes ==
    {ModelRaises,
     ModelAnswers(Text(<<"A", "C", "O", "S", " ", "s", "t", "a", "n", "d", "s", " ", "f", "o", "r", " ", "A", "d", "v", "e", "r", "t",
      "i", "s", "i", "n", "g", " ", "C", "o", "s", "t", " ", "o", "f", " ", "S", "a", "l", "e", "s", ".", "\n">>))}

-----------------------------------------------------------------------------
(* The graph of builder.py                                                 *)

\* no function is being called on its own: the graph runs
NoCall == [fn |-> "none"]

LoopNodes == {"label_normalizer", "message_analyzer", "extractor_evaluator"}
HandlerNodes == {"metrics_query_handler", "compare_query_handler", "asin_product_handler",
                 "hardcoded_response", "other_handler"}
\* a handler whose agent is running
AwaitingNodes == {Awaiting(node) : node \in AgentHandlers}

Init ==
    /\ \E q \in PipelineUtterances, it \in {None, Some("dashboard_load")} :
           state = InitialState(q, it, None)
    /\ pc = "label_normalizer"
    /\ clock \in PipelineClocks
    /\ last = "request"
    /\ normalizer_calls = 0
    /\ llm_calls = 0
    /\ answer = None
    /\ call = NoCall
    /\ _current_state = NoState

\* node "label_normalizer"
LabelNormalizer ==
    /\ pc = "label_normalizer"
    /\ \E outcome \in ExtractorOutcomes :
           /\ state' = label_normalizer_node(state, outcome, clock.pst)
           /\ last' = IF outcome.raised THEN "extract_raised" ELSE "extract_returned"
    /\ pc' = "message_analyzer"
    /\ normalizer_calls' = Min(normalizer_calls + 1, MaxCalls)
    /\ UNCHANGED <<clock, llm_calls, answer, call>>
    /\ UNCHANGED _current_state

\* node "message_analyzer"
MessageAnalyzer ==
    /\ pc = "message_analyzer"
    /\ \E outcome \in AnalyzerOutcomes :
           /\ state' = message_analyzer_node(state, outcome)
           /\ last' = IF outcome.raised THEN "analysis_raised" ELSE "analysis_returned"
    /\ pc' = "extractor_evaluator"
    /\ UNCHANGED <<clock, normalizer_calls, llm_calls, answer, call, _current_state>>

\* node "extractor_evaluator" and the conditional edge route_after_evaluation
ExtractorEvaluator ==
    /\ pc = "extractor_evaluator"
    /\ \E outcome \in ValidatorOutcomes :
           /\ state' = extractor_evaluator_node(state, outcome)
           /\ last' = IF outcome.raised THEN "validator_raised"
                      ELSE IF outcome.is_valid THEN "validator_accepted"
                      ELSE "validator_rejected"
    /\ pc' = route_after_evaluation(state')
    /\ UNCHANGED <<clock, normalizer_calls, llm_calls, answer, call>>
    /\ UNCHANGED _current_state

\* node "classifier" and the conditional edge route_by_question_type
Classifier ==
    /\ pc = "classifier"
    /\ \E llm \in ModelOutcomes :
           LET r == classify_question_node(state, llm)
           IN /\ state' = r.state
              /\ pc' = IF r.raised THEN "raised" ELSE route_by_question_type(r.state)
              /\ last' = IF r.raised THEN "classifier_raised" ELSE "classified"
              /\ llm_calls' = IF r.llm_called THEN llm_calls + 1 ELSE llm_calls
              /\ answer' = IF r.llm_called /\ ~llm.raised THEN Some(llm.content) ELSE None
    /\ UNCHANGED <<clock, normalizer_calls, call>>
    /\ UNCHANGED _current_state

\* nodes "metrics_query_handler", "compare_query_handler" and "asin_product_handler",
\* up to the agent run: the two modules that have a module-level _current_state
\* bind it to the state they were given
AgentHandlerEnter ==
    /\ pc \in AgentHandlers
    /\ _current_state' = IF pc \in DOMAIN _current_state
                         THEN [_current_state EXCEPT ![pc] = Some(state)]
                         ELSE _current_state
    /\ pc' = Awaiting(pc)
    /\ last' = "agent_invoked"
    /\ UNCHANGED <<state, clock, normalizer_calls, llm_calls, answer, call>>

\* the agent run is over: the handler stores the response in the state (the dict
\* its module's _current_state is bound to), then END
AgentHandlerReturn ==
    /\ pc \in AwaitingNodes
    /\ \E node \in AgentHandlers, outcome \in AgentOutcomes :
           LET r == agent_handler_node(state, outcome)
           IN /\ pc = Awaiting(node)
              /\ state' = r.state
              /\ _current_state' = IF node \in DOMAIN _current_state
                                   THEN [_current_state EXCEPT ![node] = Some(r.state)]
                                   ELSE _current_state
              /\ pc' = IF r.raised THEN "raised" ELSE "END"
              /\ last' = IF r.raised THEN "handler_raised" ELSE "handled"
    /\ UNCHANGED <<clock, normalizer_calls, llm_calls, answer, call>>

\* node "hardcoded_response", then END
HardcodedResponse ==
    /\ pc = "hardcoded_response"
    /\ state' = hardcoded_response_node(state)
    /\ pc' = "END"
    /\ last' = "hardcoded_answered"
    /\ UNCHANGED <<clock, normalizer_calls, llm_calls, answer, call, _current_state>>

\* node "other_handler", then END
OtherHandler ==
    /\ pc = "other_handler"
    /\ \E classification \in SubClassifications, greeting \in DOMAIN GREETING_RESPONSES,
          knowledge \in KnowledgeOutcomes :
           LET r == other_handler_node(state, classification, greeting, knowledge)
           IN /\ state' = r.state
              /\ pc' = IF r.raised THEN "raised" ELSE "END"
              /\ last' = IF r.raised THEN "handler_raised" ELSE "handled"
    /\ UNCHANGED <<clock, normalizer_calls, llm_calls, answer, call, _current_state>>

\* the handler nodes
Handlers == AgentHandlerEnter \/ AgentHandlerReturn \/ HardcodedResponse \/ OtherHandler

Next == LabelNormalizer \/ MessageAnalyzer \/ ExtractorEvaluator \/ Classifier \/ Handlers

Spec == Init /\ [][Next]_vars

\* the retry loop alone, up to the moment the conditional edge hands over to the
\* classifier; the graph runner always runs the node that is due
LoopInit ==
    /\ state = InitialState(Text(<<"W", "h", "a", "t", " ", "i", "s", " ", "m", "y", " ", "A", "C", "O", "S", "?">>),
                            None, None)
    /\ pc = "label_normalizer"
    /\ clock = [utc |-> ToOrdinal(<<2025, 12, 22>>), pst |-> ToOrdinal(<<2025, 12, 22>>)]
    /\ last = "request"
    /\ normalizer_calls = 0
    /\ llm_calls = 0
    /\ answer = None
    /\ call = NoCall
    /\ _current_state = NoState

LoopNext == LabelNormalizer \/ MessageAnalyzer \/ ExtractorEvaluator

LoopSpec == LoopInit /\ [][LoopNext]_vars /\ WF_vars(LoopNext)

-----------------------------------------------------------------------------
(* The classifier on its own: every state it can be entered with           *)

\* the state the classifier receives once the loop has been left
ClassifierEntry(q, it, ha, asin, cmp) ==
    Set(Set(Set(Set(Set(Set(Set(Set(InitialState(q, it, ha),
        "asin", asin),
        "date_start", Some(<<2025, 12, 16>>)),
        "date_end", Some(<<2025, 12, 22>>)),
        "compare_date_start", cmp),
        "compare_date_end", cmp),
        "_normalizer_valid", Some(TRUE)),
        "_normalizer_retries", Some(0)),
        "_normalizer_feedback", None)

ClassifierInit ==
    /\ \E q \in ClassifierUtterances, it \in InteractionTypes,
          ha \in {None, Some(B08XYZ1234)}, asin \in {None, Some(B08XYZ1234)},
          cmp \in {None, Some(<<2025, 9, 1>>)} :
           state = ClassifierEntry(q, it, ha, asin, cmp)
    /\ pc = "classifier"
    /\ clock \in PipelineClocks
    /\ last = "validator_accepted"
    /\ normalizer_calls = 1
    /\ llm_calls = 0
    /\ answer = None
    /\ call = NoCall
    /\ _current_state = NoState

ClassifierNext == Classifier \/ Handlers

ClassifierSpec == ClassifierInit /\ [][ClassifierNext]_vars

-----------------------------------------------------------------------------
(* Properties of the extraction retry loop                                 *)

\* _normalizer_retries as the conditional edge reads it: 0 while the key is absent
RetriesOf(s) == Val(GetD(s, "_normalizer_retries", Some(0)))

\* C1: whatever the extractor's outcomes and the validator's verdicts, label_normalizer
\* is invoked at most four times for one utterance before the classifier runs.
C1_AtMostFourExtractionAttempts == normalizer_calls <= 4

\* C2: every execution of the retry loop eventually reaches the classifier, also when
\* the extractor raises on every attempt and the validator keeps rejecting.
C2_LoopReachesClassifier == <>(pc = "classifier")

\* C3: whenever the conditional edge after the evaluator sends the pipeline to the
\* classifier, _normalizer_valid is true.
C3_ClassifierOnlyWithValidVerdict ==
    pc = "classifier" => Get(state, "_normalizer_valid") = Some(TRUE)

\* C4: within one utterance _normalizer_retries never decreases, stays in 0..3, and
\* changes only by +1 when the validator rejects; no stage resets it.
C4_RetriesOnlyCountUp ==
    [][/\ RetriesOf(state') >= RetriesOf(state)
       /\ RetriesOf(state') \in 0..3
       /\ RetriesOf(state') # RetriesOf(state) =>
              /\ RetriesOf(state') = RetriesOf(state) + 1
              /\ last' = "validator_rejected"]_vars

\* C5: when the extractor's model call raises, the state label_normalizer returns has
\* both primary labels "default", no comparison labels and no asin: nothing written by
\* an earlier attempt survives.
C5_FailedExtractionLeavesDefaults ==
    last = "extract_raised" =>
        /\ Get(state, "_date_start_label") = Some("default")
        /\ Get(state, "_date_end_label") = Some("default")
        /\ Get(state, "_compare_date_start_label") = None
        /\ Get(state, "_compare_date_end_label") = None
        /\ Get(state, "asin") = None

\* C6: when the validator's model call raises, extractor_evaluator sets
\* _normalizer_valid to true and leaves _normalizer_retries as it was, and the pipeline
\* goes on to the classifier without another extraction attempt.
C6_ValidatorFailureFailsOpen ==
    [][(pc = "extractor_evaluator" /\ last' = "validator_raised") =>
           /\ Get(state', "_normalizer_valid") = Some(TRUE)
           /\ RetriesOf(state') = RetriesOf(state)
           /\ pc' = "classifier"
           /\ normalizer_calls' = normalizer_calls]_vars

\* the validator raised on an attempt that followed a counted rejection
C6_Witness ==
    /\ last = "validator_raised"
    /\ pc = "classifier"
    /\ RetriesOf(state) > 0
    /\ Get(state, "_normalizer_valid") = Some(TRUE)

-----------------------------------------------------------------------------
(* Properties of the intent classifier                                     *)

\* the classifier has run on the request held in state
Classified == pc \notin LoopNodes /\ pc # "classifier"

\* the two category names the binary model call may answer with
ExpectedAnswers == {Text(<<"m", "e", "t", "r", "i", "c", "s", "_", "q", "u", "e", "r", "y">>), Text(<<"o", "t", "h", "e", "r", "_", "q", "u", "e", "r", "y">>)}

\* C7: when none of rules 1-5 matches and the model answers anything other than one of
\* the two category names, question_type is set to metrics_query.
C7_UnknownAnswerDefaultsToMetrics ==
    (Classified /\ answer # None /\ Lower(Strip(Val(answer))) \notin ExpectedAnswers) =>
        Get(state, "question_type") = "metrics_query"

\* C8: when the binary model call raises, classify_question_node still returns, with
\* question_type metrics_query; no exception leaves the classifier.
C8_ModelFailureDefaultsToMetrics ==
    (Classified /\ llm_calls > 0 /\ answer = None) =>
        /\ last # "classifier_raised"
        /\ pc # "raised"
        /\ Get(state, "question_type") = "metrics_query"

\* the goal vocabulary of the classification rules
GoalVocabulary == {Text(<<"g", "o", "a", "l">>), Text(<<"o", "b", "j", "e", "c", "t", "i", "v", "e">>), Text(<<"t", "a", "r", "g", "e", "t">>)}

\* the request is a goal request: goal vocabulary in the utterance, or a goal interaction
GoalRequest(s) ==
    \/ \E w \in GoalVocabulary : Contains(w, Lower(s["question"]))
    \/ Get(s, "interaction_type") \in {Some("goal_created"), Some("goal_created_failed")}

\* the request carries a product identifier
ProductPresent(s) ==
    \/ Get(s, "asin") # None
    \/ Get(s, "_http_asin") # None
    \/ has_asin_word(s["question"])

\* C9: a goal request is classified goal_query even when an asin or _http_asin value is
\* present or the utterance contains the word ASIN.
C9_GoalBeforeProduct ==
    (Classified /\ GoalRequest(state)) =>
        /\ last # "classifier_raised"
        /\ Get(state, "question_type") = "goal_query"

\* a goal request that also carries a product identifier has been classified
C9_Witness ==
    /\ Classified
    /\ GoalRequest(state)
    /\ ProductPresent(state)
    /\ \E w \in GoalVocabulary : Contains(w, Lower(state["question"]))
    /\ Get(state, "asin") # None
    /\ Get(state, "question_type") = "goal_query"

\* the category of the first rule that matches, in the order goal, dashboard_load,
\* hardcoded, asin_product, insight; "none" when no rule matches
FirstMatchingRule(s) ==
    IF GoalRequest(s) THEN "goal_query"
    ELSE IF Get(s, "interaction_type") = Some("dashboard_load") THEN "dashboard_load"
    ELSE IF Lower(Strip(s["question"])) \in HARDCODED_QUESTIONS THEN "hardcoded"
    ELSE IF ProductPresent(s) THEN "asin_product"
    ELSE IF Get(s, "compare_date_start") # None \/ _has_insight_keywords(s["question"])
    THEN "insight_query"
    ELSE "none"

\* C10: the classifier assigns the category of the first matching rule in the order
\* goal, dashboard_load, hardcoded, asin_product, insight, and calls the model exactly
\* when no rule matches; an utterance that equals "show me performance insights" after
\* trimming and lower-casing is hardcoded, without a model call.
C10_FirstMatchingRuleWins ==
    Classified =>
        /\ FirstMatchingRule(state) # "none" =>
               /\ Get(state, "question_type") = FirstMatchingRule(state)
               /\ llm_calls = 0
        /\ FirstMatchingRule(state) = "none" => llm_calls = 1
        /\ (/\ Lower(Strip(state["question"])) = Text(<<"s", "h", "o", "w", " ", "m", "e", " ", "p", "e", "r", "f", "o", "r", "m", "a", "n", "c", "e", " ", "i", "n", "s", "i", "g", "h", "t", "s">>)
            /\ ~GoalRequest(state)
            /\ Get(state, "interaction_type") # Some("dashboard_load")) =>
               /\ Get(state, "question_type") = "hardcoded"
               /\ llm_calls = 0

\* the padded, mixed-case insights utterance has been classified hardcoded, although it
\* holds an insight keyword and the request carries a product identifier
C10_Witness ==
    /\ Classified
    /\ state["question"] # Lower(Strip(state["question"]))
    /\ Lower(Strip(state["question"])) = Text(<<"s", "h", "o", "w", " ", "m", "e", " ", "p", "e", "r", "f", "o", "r", "m", "a", "n", "c", "e", " ", "i", "n", "s", "i", "g", "h", "t", "s">>)
    /\ _has_insight_keywords(state["question"])
    /\ Get(state, "asin") # None
    /\ Get(state, "question_type") = "hardcoded"
    /\ llm_calls = 0

-----------------------------------------------------------------------------
(* The conditional edge after the classifier on its own                    *)

\* values of question_type the edge may be asked to route: the categories of the
\* routing table, the other categories the classifier writes, the empty string of
\* initial_state and a value no stage writes
QuestionTypes ==
    {"metrics_query", "compare_query", "asin_product", "hardcoded", "other",
     "goal_query", "dashboard_load", "insight_query", "other_query", "", "unknown_type"}

\* the dict without key k
Without(s, k) == [x \in (DOMAIN s) \ {k} |-> s[x]]

\* the path map of add_conditional_edges("classifier", route_by_question_type, ...)
ClassifierEdgeMap ==
    {"metrics_query_handler", "compare_query_handler", "asin_product_handler",
     "hardcoded_response", "other_handler"}

RouteInit ==
    /\ \E q \in ClassifierUtterances, it \in InteractionTypes :
           LET s == ClassifierEntry(q, it, None, None, None)
           IN \/ \E qt \in QuestionTypes : state = Set(s, "question_type", qt)
              \/ state = Without(s, "question_type")
    /\ pc = "route_by_question_type"
    /\ clock = [utc |-> ToOrdinal(<<2025, 12, 22>>), pst |-> ToOrdinal(<<2025, 12, 22>>)]
    /\ last = "classified"
    /\ normalizer_calls = 1
    /\ llm_calls = 0
    /\ answer = None
    /\ call = NoCall
    /\ _current_state = NoState

\* the conditional edge route_by_question_type picks the handler
Route ==
    /\ pc = "route_by_question_type"
    /\ pc' = route_by_question_type(state)
    /\ last' = "routed"
    /\ UNCHANGED <<state, clock, normalizer_calls, llm_calls, answer, call>>
    /\ UNCHANGED _current_state

RouteNext == Route \/ Handlers

RouteSpec == RouteInit /\ [][RouteNext]_vars

\* the categories that have an entry in the routing table
RoutedCategories == {"metrics_query", "compare_query", "asin_product", "hardcoded", "other"}

\* C11: for every value of question_type, a missing, empty or unknown one included,
\* route_by_question_type returns a handler registered in the graph's conditional-edge
\* map, and a category without an entry in the routing table yields other_handler.
C11_RoutingNeverFails ==
    [][pc = "route_by_question_type" =>
           /\ pc' \in ClassifierEdgeMap
           /\ pc' \in HandlerNodes
           /\ ("question_type" \notin DOMAIN state \/ state["question_type"] \notin RoutedCategories)
                  => pc' = "other_handler"]_vars

\* a state with no question_type at all has been routed to the default handler
C11_Witness ==
    /\ last = "routed"
    /\ "question_type" \notin DOMAIN state
    /\ pc = "other_handler"

-----------------------------------------------------------------------------
(* The date calculation stage on its own: every pair of labels             *)

\* extraction records handed to the date calculation stage: every pair of primary
\* labels, with the metadata both labels may need, with and without a comparison
DateExtractions ==
    {Extraction(sl, el, cmp[1], cmp[2],
                Some(<<2025, 12, 1>>), Some(<<2025, 12, 25>>),
                Some(<<2025, 11, 1>>), Some(<<2025, 11, 30>>),
                cd, Some(23), None) :
         sl \in DateLabelLiteral, el \in DateLabelLiteral,
         cmp \in {<<None, None>>,
                  <<Some("september"), Some("september")>>,
                  <<Some("yesterday"), Some("last_year")>>},
         cd \in {Some(23), Some(800000)}}

DateStageInit ==
    /\ clock \in PipelineClocks
    /\ \E e \in DateExtractions :
           state = label_normalizer_node(
                       InitialState(Text(<<"W", "h", "a", "t", " ", "i", "s", " ", "m", "y", " ", "A", "C", "O", "S", "?">>),
                                    None, None),
                       ExtractorReturns(e), clock.pst)
    /\ pc = "date_calculator"
    /\ last = "extract_returned"
    /\ normalizer_calls = 1
    /\ llm_calls = 0
    /\ answer = None
    /\ call = NoCall
    /\ _current_state = NoState

\* date_calculator_node(state), called on its own
DateCalculation ==
    /\ pc = "date_calculator"
    /\ state' = date_calculator_node(state, clock.utc)
    /\ pc' = "returned"
    /\ last' = "dates_calculated"
    /\ UNCHANGED <<clock, normalizer_calls, llm_calls, answer, call, _current_state>>

DateStageNext == DateCalculation

DateStageSpec == DateStageInit /\ [][DateStageNext]_vars

\* is_logical of node2_date_logic: both strings parse with strptime("%Y-%m-%d")
\* and start_dt <= end_dt; a string strptime rejects (a day or a month that does
\* not exist, the empty string) or a None makes the range not logical
node2_date_logic(date_start, date_end) ==
    /\ IsValidDate(date_start)
    /\ IsValidDate(date_end)
    /\ \/ date_start[1] < date_end[1]
       \/ date_start[1] = date_end[1] /\ date_start[2] < date_end[2]
       \/ date_start[1] = date_end[1] /\ date_start[2] = date_end[2] /\ date_start[3] <= date_end[3]

\* C12: after the date calculation stage, for every extraction record, the primary
\* range has date_start <= date_end and the comparison range, when present, has
\* compare_date_start <= compare_date_end.
C12_ResolvedRangesAreOrdered ==
    last = "dates_calculated" =>
        /\ node2_date_logic(Val(state["date_start"]), Val(state["date_end"]))
        /\ state["compare_date_start"] # None =>
               node2_date_logic(Val(state["compare_date_start"]), Val(state["compare_date_end"]))

-----------------------------------------------------------------------------
(* DateCalculator.calculate called on its own                              *)

\* anchor dates: a Monday and a Sunday, month and year ends, February in leap and
\* common years, in a leap and in a common century year
CalcAnchors ==
    {<<2025, 12, 22>>, <<2025, 12, 28>>, <<2025, 1, 1>>, <<2024, 12, 31>>,
     <<2025, 4, 30>>, <<2025, 3, 5>>, <<2024, 2, 29>>, <<2024, 2, 10>>,
     <<2025, 2, 14>>, <<2100, 2, 15>>, <<2000, 2, 29>>}

\* the explicit_date argument: missing, empty, or a date
CalcExplicitDates == {None, Some(<<>>), Some(<<2025, 12, 1>>)}

\* the custom_days argument: missing, zero, negative, a count, or a count that
\* reaches back before date.min
CalcCustomDays ==
    {None, Some(0), Some(-1), Some(1), Some(7), Some(14), Some(23), Some(30),
     Some(60), Some(90), Some(180), Some(800000)}

CalcInit ==
    /\ \E a \in CalcAnchors : clock = [utc |-> ToOrdinal(a), pst |-> ToOrdinal(a)]
    /\ \E label \in DateLabelLiteral, explicit_date \in CalcExplicitDates,
          custom_days \in CalcCustomDays :
           call = [fn |-> "calculate", label |-> label,
                   explicit_date |-> explicit_date, custom_days |-> custom_days]
    /\ state = InitialState(<<>>, None, None)
    /\ pc = "calculate"
    /\ last = "request"
    /\ normalizer_calls = 0
    /\ llm_calls = 0
    /\ answer = None
    /\ _current_state = NoState

\* DateCalculator(current_date).calculate(label, explicit_date, custom_days)
Calculate ==
    /\ pc = "calculate"
    /\ \E r \in {calculate(clock.utc, call.label, call.explicit_date, call.custom_days)} :
           /\ call' = [fn |-> "calculate", label |-> call.label,
                       explicit_date |-> call.explicit_date,
                       custom_days |-> call.custom_days, result |-> r]
           /\ last' = IF r.ok THEN "calculate_returned" ELSE "calculate_raised"
    /\ pc' = "returned"
    /\ UNCHANGED <<state, clock, normalizer_calls, llm_calls, answer>>
    /\ UNCHANGED _current_state

CalcNext == Calculate

CalcSpec == CalcInit /\ [][CalcNext]_vars

\* calculate has been called with this label and has returned or raised
Calculated(label) == pc = "returned" /\ call.fn = "calculate" /\ call.label = label

\* the metadata the label requires has been supplied with the call
RequiredMetadataSupplied ==
    /\ call.label = "explicit_date" =>
           call.explicit_date # None /\ Val(call.explicit_date) # <<>>
    /\ call.label = "past_days" =>
           call.custom_days # None /\ Val(call.custom_days) > 0

\* C13: for every label of the closed vocabulary, q1..q4 included, calculate with the
\* label's required metadata supplied returns a (start, end) pair; the unknown-label
\* error is unreachable for members of the vocabulary.
C13_VocabularyAlwaysResolves ==
    (pc = "returned" /\ call.fn = "calculate" /\ call.label \in DateLabelLiteral
         /\ RequiredMetadataSupplied) =>
        call.result.ok

\* the fixed-window labels and the day count baked into each
SugarDays ==
    [past_7_days |-> 7, past_14_days |-> 14, past_30_days |-> 30, past_60_days |-> 60,
     past_90_days |-> 90, past_180_days |-> 180]

\* C14: for every anchor date each fixed-window label returns exactly the pair that
\* past_days returns with the label's count (7, 14, 30, 60, 90, 180), and default
\* returns the pair of past_7_days.
C14_SugarLabelsArePastDays ==
    (pc = "returned" /\ call.fn = "calculate") =>
        /\ call.label \in DOMAIN SugarDays =>
               call.result = calculate(clock.utc, "past_days", None,
                                       Some(SugarDays[call.label]))
        /\ call.label = "default" =>
               call.result = calculate(clock.utc, "past_7_days", None, None)

\* default has been resolved at an anchor whose seven-day window crosses a year end
C14_Witness ==
    /\ Calculated("default")
    /\ clock.utc = ToOrdinal(<<2025, 1, 1>>)
    /\ call.result.ok
    /\ call.result.start = <<2024, 12, 26>>
    /\ call.result.end = <<2025, 1, 1>>

\* the call is past_days with a positive day count
PastDaysCall ==
    /\ Calculated("past_days")
    /\ call.custom_days # None
    /\ Val(call.custom_days) > 0

\* the rule of past_days: the range ends on the anchor, starts N - 1 days before it
\* and so spans exactly N calendar days
PastDaysSpansN ==
    PastDaysCall =>
        /\ call.result.ok
        /\ call.result.end = FromOrdinal(clock.utc)
        /\ IsValidDate(call.result.start)
        /\ ToOrdinal(call.result.start) = clock.utc - (Val(call.custom_days) - 1)
        /\ ToOrdinal(call.result.end) - ToOrdinal(call.result.start) + 1 = Val(call.custom_days)

\* the call of the scenario: anchor 2025-12-22, past_days, custom_days = 23
PastDaysScenario ==
    /\ PastDaysCall
    /\ clock.utc = ToOrdinal(<<2025, 12, 22>>)
    /\ call.custom_days = Some(23)

\* C15 (as stated): for every anchor and every N > 0, calculate("past_days", N) returns
\* (anchor - (N - 1) days, anchor), N calendar days inclusive, also across month and
\* year boundaries; anchor 2025-12-22 with N = 23 gives 2025-11-29 .. 2025-12-22.
C15_PastDaysAsStated ==
    /\ PastDaysSpansN
    /\ PastDaysScenario =>
           call.result = Pair(<<2025, 11, 29>>, <<2025, 12, 22>>)

\* the rule of past_days where the calendar has the first day of the range, and an
\* OverflowError where N - 1 days reach back before date.min
PastDaysSpansNOrOverflows ==
    PastDaysCall =>
        IF IsDateOrdinal(clock.utc - (Val(call.custom_days) - 1))
        THEN /\ call.result.ok
             /\ call.result.end = FromOrdinal(clock.utc)
             /\ IsValidDate(call.result.start)
             /\ ToOrdinal(call.result.start) = clock.utc - (Val(call.custom_days) - 1)
             /\ ToOrdinal(call.result.end) - ToOrdinal(call.result.start) + 1
                    = Val(call.custom_days)
        ELSE ~call.result.ok /\ last = "calculate_raised"

\* C15 (amended): the same rule for every N > 0 whose first day anchor - (N - 1) is a
\* calendar day, an error for an N that reaches back before 0001-01-01; anchor
\* 2025-12-22 with N = 23 gives 2025-11-30 .. 2025-12-22, the 23 days that the rule
\* itself yields.
C15_PastDaysSpanNDays ==
    /\ PastDaysSpansNOrOverflows
    /\ PastDaysScenario =>
           call.result = Pair(<<2025, 11, 30>>, <<2025, 12, 22>>)

\* the scenario's call has returned a range that starts in the month before the anchor's
C15_Witness ==
    /\ PastDaysScenario
    /\ call.result.ok
    /\ call.result.start[2] = 11
    /\ call.result.end = <<2025, 12, 22>>

\* the rule of last_week: a Monday, the Sunday six days later, and that Sunday is the
\* day before the Monday of the anchor's own week
LastWeekIsPreviousWeek ==
    Calculated("last_week") =>
        /\ call.result.ok
        /\ IsValidDate(call.result.start) /\ IsValidDate(call.result.end)
        /\ ToOrdinal(call.result.start) % 7 = 1            \* ordinal 1 (0001-01-01) is a Monday
        /\ ToOrdinal(call.result.end) = ToOrdinal(call.result.start) + 6
        /\ \E monday \in (clock.utc - 6)..clock.utc :
               /\ monday % 7 = 1
               /\ ToOrdinal(call.result.end) = monday - 1

\* the call of the scenario: anchor 2025-12-22, last_week
LastWeekScenario == Calculated("last_week") /\ clock.utc = ToOrdinal(<<2025, 12, 22>>)

\* C16 (as stated): for every anchor, calculate("last_week") returns the Monday and the
\* Sunday of the week immediately before the anchor's Monday-based week; anchor
\* 2025-12-22 gives 2025-12-08 .. 2025-12-14.
C16_LastWeekAsStated ==
    /\ LastWeekIsPreviousWeek
    /\ LastWeekScenario => call.result = Pair(<<2025, 12, 8>>, <<2025, 12, 14>>)

\* C16 (amended): the same rule; anchor 2025-12-22, itself a Monday, gives
\* 2025-12-15 .. 2025-12-21, the week immediately before its own.
C16_LastWeekIsThePreviousWeek ==
    /\ LastWeekIsPreviousWeek
    /\ LastWeekScenario => call.result = Pair(<<2025, 12, 15>>, <<2025, 12, 21>>)

\* last_week has been resolved for the scenario's anchor, a Monday
C16_Witness ==
    /\ LastWeekScenario
    /\ Weekday(clock.utc) = 0
    /\ call.result.ok
    /\ ToOrdinal(call.result.end) = clock.utc - 1

\* the number of days of month m of year y, spelled out
MonthLength(y, m) ==
    CASE m \in {1, 3, 5, 7, 8, 10, 12} -> 31
      [] m \in {4, 6, 9, 11} -> 30
      [] m = 2 /\ y % 400 = 0 -> 29
      [] m = 2 /\ y % 400 # 0 /\ y % 100 = 0 -> 28
      [] m = 2 /\ y % 100 # 0 /\ y % 4 = 0 -> 29
      [] OTHER -> 28

\* C17: for every anchor, calculate("this_month") returns the first day of the
\* anchor's month and that month's last calendar day (28/29/30/31, 29 for February
\* exactly in leap years), whatever the anchor's day of the month.
C17_ThisMonthIsTheFullMonth ==
    Calculated("this_month") =>
        LET a == FromOrdinal(clock.utc)
        IN /\ call.result.ok
           /\ call.result.start = <<a[1], a[2], 1>>
           /\ call.result.end = <<a[1], a[2], MonthLength(a[1], a[2])>>
           /\ FromOrdinal(ToOrdinal(call.result.end) + 1)[3] = 1

\* this_month has been resolved from the middle of a leap-year February
C17_Witness ==
    /\ Calculated("this_month")
    /\ clock.utc = ToOrdinal(<<2024, 2, 10>>)
    /\ call.result.ok
    /\ call.result.end = <<2024, 2, 29>>

\* C18: calculate returns no pair and signals an error when the label is explicit_date
\* and the explicit date is missing or empty, and when the label is past_days and
\* custom_days is missing, zero or negative; with a non-empty explicit date D it
\* returns (D, D) whatever the anchor is.
C18_MissingMetadataIsAnError ==
    (pc = "returned" /\ call.fn = "calculate") =>
        /\ (call.label = "explicit_date"
                /\ (call.explicit_date = None \/ call.explicit_date = Some(<<>>)))
               => (~call.result.ok /\ last = "calculate_raised")
        /\ (call.label = "past_days"
                /\ (call.custom_days = None \/ Val(call.custom_days) <= 0))
               => (~call.result.ok /\ last = "calculate_raised")
        /\ (call.label = "explicit_date"
                /\ call.explicit_date # None /\ call.explicit_date # Some(<<>>))
               => call.result = Pair(Val(call.explicit_date), Val(call.explicit_date))

\* past_days has been called with a negative day count and has raised
C18_Witness ==
    /\ Calculated("past_days")
    /\ call.custom_days = Some(-1)
    /\ last = "calculate_raised"
    /\ ~call.result.ok

-----------------------------------------------------------------------------
(* label_normalizer on its own: product identifiers and explicit dates     *)

B0B5HN65QQ == Text(<<"B", "0", "B", "5", "H", "N", "6", "5", "Q", "Q">>)

\* utterances with and without product identifier tokens
NormalizerUtterances ==
    {Text(<<"W", "h", "a", "t", " ", "i", "s", " ", "m", "y", " ", "A", "C", "O", "S", "?">>),
     Text(<<"s", "a", "l", "e", "s", " ", "o", "f", " ", "B", "0", "8", "X", "Y", "Z", "1", "2", "3", "4">>),
     Text(<<"s", "a", "l", "e", "s", " ", "o", "f", " ", "b", "0", "8", "x", "y", "z", "1", "2", "3", "4", " ", "v", "s", " ", "l", "a", "s", "t", " ", "w", "e", "e", "k">>),
     Text(<<"c", "o", "m", "p", "a", "r", "e", " ", "B", "0", "B", "5", "H", "N", "6", "5", "Q", "Q", " ", "a", "n", "d", " ", "B", "0", "8", "X", "Y", "Z", "1", "2", "3", "4">>),
     Text(<<"s", "a", "l", "e", "s", " ", "o", "f", " ", "X", "B", "0", "8", "X", "Y", "Z", "1", "2", "3", "4">>),
     Text(<<"s", "h", "o", "w", " ", "S", "T", "A", "T", "I", "S", "T", "I", "C", "S", " ", "p", "l", "e", "a", "s", "e">>),
     \* "ventes de B08XYZ1234" and U+00E9; U+00E9 and "B08XYZ1234"; "sales of b08xyz12", U+017F (long s), "4"
     Text(<<"v", "e", "n", "t", "e", "s", " ", "d", "e", " ", "B", "0", "8", "X", "Y", "Z", "1", "2", "3", "4">>) \o <<233>>,
     <<233>> \o Text(<<"B", "0", "8", "X", "Y", "Z", "1", "2", "3", "4">>),
     Text(<<"s", "a", "l", "e", "s", " ", "o", "f", " ", "b", "0", "8", "x", "y", "z", "1", "2">>) \o <<383>> \o Text(<<"4">>)}

\* the identifier the model claims: none, empty, the one of the text, another valid
\* one (upper and lower case), an invalid one
AsinClaims ==
    {None, Some(<<>>), Some(B08XYZ1234), Some(B0B5HN65QQ), Some(Lower(B0B5HN65QQ)),
     Some(Text(<<"X", "Y", "Z">>)),
     \* "b08xyz12", U+017F (long s), "4"; U+00DF (sharp s), "01234567" and a newline
     Some(Text(<<"b", "0", "8", "x", "y", "z", "1", "2">>) \o <<383>> \o Text(<<"4">>)), Some(<<223>> \o Text(<<"0", "1", "2", "3", "4", "5", "6", "7", "\n">>))}

\* explicit dates the model may produce: past and future days, 29 February of a past
\* and of a coming leap year, a day that does not exist, the empty string, none
ExplicitDates ==
    {None, Some(<<>>), Some(<<2025, 12, 1>>), Some(<<2025, 12, 25>>), Some(<<2024, 2, 29>>),
     Some(<<2028, 2, 29>>), Some(<<2027, 3, 15>>), Some(<<2025, 2, 30>>)}

NormalizerExtractions ==
    {Extraction("today", "today", None, None, None, None, None, None, None, None, asin) :
         asin \in AsinClaims}
    \cup {Extraction("explicit_date", "explicit_date", None, None, es, ee, None, None,
                     None, None, asin) :
              es \in ExplicitDates, ee \in ExplicitDates, asin \in {None, Some(B08XYZ1234)}}
    \cup {Extraction("yesterday", "today", Some("explicit_date"), Some("explicit_date"),
                     es, ee, ee, es, None, None, None) :
              es \in ExplicitDates, ee \in ExplicitDates}

NormalizerClocks ==
    {[utc |-> ToOrdinal(<<2025, 12, 22>>), pst |-> ToOrdinal(<<2025, 12, 22>>)],
     [utc |-> ToOrdinal(<<2025, 12, 22>>), pst |-> ToOrdinal(<<2025, 12, 21>>)],
     [utc |-> ToOrdinal(<<2024, 2, 10>>), pst |-> ToOrdinal(<<2024, 2, 10>>)]}

NormalizerInit ==
    /\ \E q \in NormalizerUtterances : state = InitialState(q, None, None)
    /\ clock \in NormalizerClocks
    /\ pc = "label_normalizer"
    /\ last = "request"
    /\ normalizer_calls = 0
    /\ llm_calls = 0
    /\ answer = None
    /\ call = NoCall
    /\ _current_state = NoState

\* label_normalizer_node(state), the first attempt for the utterance; call keeps what
\* the extractor's model call did
Normalize ==
    /\ pc = "label_normalizer"
    /\ \E outcome \in {ExtractorRaises(e) : e \in ExceptionMessages} \cup {ExtractorReturns(e) : e \in NormalizerExtractions} :
           /\ state' = label_normalizer_node(state, outcome, clock.pst)
           /\ last' = IF outcome.raised THEN "extract_raised" ELSE "extract_returned"
           /\ call' = [fn |-> "extractor", outcome |-> outcome]
    /\ pc' = "message_analyzer"
    /\ normalizer_calls' = Min(normalizer_calls + 1, MaxCalls)
    /\ UNCHANGED <<clock, llm_calls, answer>>
    /\ UNCHANGED _current_state

NormalizerNext == Normalize

NormalizerSpec == NormalizerInit /\ [][NormalizerNext]_vars

\* label_normalizer_node has returned the state built from an extraction
Normalized == last = "extract_returned" /\ call.fn = "extractor" /\ ~call.outcome.raised

\* the positions of the utterance, in upper case, where a token of B followed by nine
\* alphanumerics starts
BTokens(question) ==
    {i \in 1..Len(question) : Upper(question)[i] = 66 /\ TokenAt(Upper(question), i, 10)}

\* the first such token
FirstBToken(question) ==
    LET i == CHOOSE k \in BTokens(question) : \A j \in BTokens(question) : k <= j
    IN SubSeq(Upper(question), i, i + 9)

\* C19: after label_normalizer_node succeeds, whenever the utterance contains a token
\* of B followed by nine alphanumerics, state.asin is that token in upper case whatever
\* the model claimed (another identifier, an invalid one, or none); when neither the
\* utterance nor the model's claim yields a valid identifier, state.asin is absent.
C19_IdentifierOfTheTextWins ==
    Normalized =>
        LET question == state["question"]
            claimed == call.outcome.extraction.asin
        IN /\ BTokens(question) # {} => state["asin"] = Some(FirstBToken(question))
           /\ (extract_asin_from_text(question) = None
                   /\ (claimed = None \/ ~validate_asin(Val(claimed))))
                  => ~TruthySeq(state["asin"])

\* the date the claim expects to be stored for the explicit date d
ShiftedIfFuture(d) ==
    IF ToOrdinal(d) > clock.pst THEN <<d[1] - 1, d[2], d[3]>> ELSE d

\* the field holds the date the claim expects, when its label is explicit_date and the
\* extractor produced a calendar date for it
StoredAsExpected(label, produced, key) ==
    (label = Some("explicit_date") /\ produced # None /\ IsValidDate(Val(produced))) =>
        state[key] = Some(ShiftedIfFuture(Val(produced)))

\* C20: for every explicit date the extractor produces for a field whose label is
\* explicit_date, label_normalizer_node stores the date unchanged when it is not after
\* the current date and the same month and day one year earlier when it is; this holds
\* for every calendar date, 29 February included.
C20_FutureDatesMoveBackOneYear ==
    Normalized =>
        LET e == call.outcome.extraction
        IN /\ StoredAsExpected(Some(e.date_start_label), e.explicit_date_start,
                               "_explicit_date_start")
           /\ StoredAsExpected(Some(e.date_end_label), e.explicit_date_end,
                               "_explicit_date_end")
           /\ StoredAsExpected(e.compare_date_start_label, e.explicit_compare_start,
                               "_explicit_compare_start")
           /\ StoredAsExpected(e.compare_date_end_label, e.explicit_compare_end,
                               "_explicit_compare_end")


-----------------------------------------------------------------------------
(* Requests that carry date overrides                                      *)

\* date_start / date_end values a caller may send with the request
HttpDates == {<<None, None>>,
              <<Some(<<2025, 9, 1>>), None>>,
              <<Some(<<2025, 9, 1>>), Some(<<2025, 9, 14>>)>>}

\* initial_state of main.py for a request with date_start / date_end fields
OverrideInit ==
    /\ \E q \in PipelineUtterances, h \in HttpDates :
           state = Set(Set(InitialState(q, None, None),
                           "_http_date_start", h[1]),
                       "_http_date_end", h[2])
    /\ pc = "label_normalizer"
    /\ clock = [utc |-> ToOrdinal(<<2025, 12, 22>>), pst |-> ToOrdinal(<<2025, 12, 22>>)]
    /\ last = "request"
    /\ normalizer_calls = 0
    /\ llm_calls = 0
    /\ answer = None
    /\ call = NoCall
    /\ _current_state = NoState

OverrideSpec == OverrideInit /\ [][Next]_vars

\* the request carries both a start and an end override
OverridesComplete == state["_http_date_start"] # None /\ state["_http_date_end"] # None

\* C21: when the caller supplies both a date-start and a date-end override, no
\* extraction is performed for the request and the date_start / date_end that
\* reach the handler are the supplied overrides.
C21_OverridesSkipExtraction ==
    OverridesComplete =>
        /\ normalizer_calls = 0
        /\ pc \in HandlerNodes =>
               /\ state["date_start"] = state["_http_date_start"]
               /\ state["date_end"] = state["_http_date_end"]

-----------------------------------------------------------------------------
(* Comparison utterances                                                   *)

\* the question of the fixture comparison_state
CompareAugustVsSeptember == Text(<<"C", "o", "m", "p", "a", "r", "e", " ", "A", "u", "g", "u", "s", "t", " ", "v", "s", " ", "S", "e", "p", "t", "e", "m", "b", "e", "r">>)

\* the classifier has returned for the comparison utterance, sent as plain chat
\* with no product identifier in the state
ComparisonClassified ==
    /\ last = "classified"
    /\ state["question"] = CompareAugustVsSeptember
    /\ state["interaction_type"] \in {None, Some("chat")}
    /\ state["asin"] = None
    /\ state["_http_asin"] = None

\* C22: an utterance with comparison vocabulary and no goal word, no hardcoded
\* match and no product identifier ("Compare August vs September") is classified
\* as compare_query and handed to compare_query_handler.
C22_ComparisonIsCompareQuery ==
    ComparisonClassified =>
        /\ state["question_type"] = "compare_query"
        /\ pc = "compare_query_handler"

-----------------------------------------------------------------------------
(* extract_dates_metrics/date_utils.py: dates by pattern matching          *)

\* re.search(r'\bkw\b', t) for a keyword that starts and ends with a word character
WordAt(kw, t, i) == BoundaryBefore(t, i) /\ MatchesAt(kw, t, i) /\ BoundaryBefore(t, i + Len(kw))
SearchWord(kw, t) == \E i \in 1..Len(t) : WordAt(kw, t, i)

extract_today(question) ==
    LET question_lower == Lower(question)
    IN \E pattern \in {Text(<<"t", "o", "d", "a", "y">>), Text(<<"t", "o", "d", "a", "y", "'", "s">>), Text(<<"t", "o", "d", "a", "y", "s">>), Text(<<"f", "o", "r", " ", "t", "o", "d", "a", "y">>)} :
           SearchWord(pattern, question_lower)

extract_yesterday(question) ==
    LET question_lower == Lower(question)
    IN \E pattern \in {Text(<<"y", "e", "s", "t", "e", "r", "d", "a", "y">>), Text(<<"y", "e", "s", "t", "e", "r", "d", "a", "y", "'", "s">>), Text(<<"y", "e", "s", "t", "e", "r", "d", "a", "y", "s">>)} :
           SearchWord(pattern, question_lower)

\* the end of the longest run of characters of a class that starts at i
\* (i itself when t[i] is not of the class)
RunEnd(t, i, class) ==
    CHOOSE j \in i..(Len(t) + 1) :
        /\ \A k \in i..(j - 1) : t[k] \in class
        /\ j = Len(t) + 1 \/ t[j] \notin class

\* int(text) of a string of decimal digits
RECURSIVE int(_)
int(ds) ==
    IF ds = <<>> THEN 0
    ELSE 10 * int(SubSeq(ds, 1, Len(ds) - 1)) + DigitValue(ds[Len(ds)])

\* the match of r'\bword\s+(\d+)\s+days?\b' that starts at i: the positions of the
\* captured digits, or <<>> when the pattern does not match there
DaysPatternAt(word, t, i) ==
    LET a == RunEnd(t, i + Len(word), Whitespace)
        b == RunEnd(t, a, DigitSet)
        c == RunEnd(t, b, Whitespace)
    IN IF /\ BoundaryBefore(t, i) /\ MatchesAt(word, t, i)
          /\ a > i + Len(word) /\ b > a /\ c > b
          /\ MatchesAt(Text(<<"d", "a", "y">>), t, c)
          /\ \/ (MatchesAt(Text(<<"s">>), t, c + 3) /\ BoundaryBefore(t, c + 4))
             \/ BoundaryBefore(t, c + 3)
       THEN <<a, b - 1>>
       ELSE <<>>

\* re.search of the pattern: the leftmost match, as Optional[int] of its group 1
SearchDaysPattern(word, t) ==
    LET hits == {i \in 1..Len(t) : DaysPatternAt(word, t, i) # <<>>}
        first == CHOOSE i \in hits : \A k \in hits : i <= k
        g == DaysPatternAt(word, t, first)
    IN IF hits = {} THEN None ELSE Some(int(SubSeq(t, g[1], g[2])))

extract_last_x_days(question) ==
    LET question_lower == Lower(question)
        by_last == SearchDaysPattern(Text(<<"l", "a", "s", "t">>), question_lower)
        by_past == SearchDaysPattern(Text(<<"p", "a", "s", "t">>), question_lower)
    IN IF by_last # None THEN by_last ELSE by_past

\* month_map, in the order of its keys
month_map ==
    <<<<Text(<<"j", "a", "n", "u", "a", "r", "y">>), 1>>, <<Text(<<"j", "a", "n">>), 1>>, <<Text(<<"f", "e", "b", "r", "u", "a", "r", "y">>), 2>>, <<Text(<<"f", "e", "b">>), 2>>,
      <<Text(<<"m", "a", "r", "c", "h">>), 3>>, <<Text(<<"m", "a", "r">>), 3>>, <<Text(<<"a", "p", "r", "i", "l">>), 4>>, <<Text(<<"a", "p", "r">>), 4>>, <<Text(<<"m", "a", "y">>), 5>>,
      <<Text(<<"j", "u", "n", "e">>), 6>>, <<Text(<<"j", "u", "n">>), 6>>, <<Text(<<"j", "u", "l", "y">>), 7>>, <<Text(<<"j", "u", "l">>), 7>>,
      <<Text(<<"a", "u", "g", "u", "s", "t">>), 8>>, <<Text(<<"a", "u", "g">>), 8>>, <<Text(<<"s", "e", "p", "t", "e", "m", "b", "e", "r">>), 9>>, <<Text(<<"s", "e", "p">>), 9>>, <<Text(<<"s", "e", "p", "t">>), 9>>,
      <<Text(<<"o", "c", "t", "o", "b", "e", "r">>), 10>>, <<Text(<<"o", "c", "t">>), 10>>, <<Text(<<"n", "o", "v", "e", "m", "b", "e", "r">>), 11>>, <<Text(<<"n", "o", "v">>), 11>>,
      <<Text(<<"d", "e", "c", "e", "m", "b", "e", "r">>), 12>>, <<Text(<<"d", "e", "c">>), 12>>>>

\* the leftmost match of r'\b(january|jan|...)\b', first alternative first
extract_month_name(question) ==
    LET question_lower == Lower(question)
        hits == {i \in 1..Len(question_lower) :
                     \E k \in 1..Len(month_map) : WordAt(month_map[k][1], question_lower, i)}
        first == CHOOSE i \in hits : \A k \in hits : i <= k
        alts == {k \in 1..Len(month_map) : WordAt(month_map[k][1], question_lower, first)}
        alt == CHOOSE k \in alts : \A j \in alts : k <= j
    IN IF hits = {} THEN None ELSE Some(month_map[alt][2])

IsDigitAt(t, i) == i >= 1 /\ i <= Len(t) /\ t[i] \in DigitSet

has_explicit_date_reference(question) ==
    LET q == Lower(question)
        iso == \E i \in 1..Len(q) :
                   /\ \A k \in {0, 1, 2, 3, 5, 6, 8, 9} : IsDigitAt(q, i + k)
                   /\ MatchesAt(Text(<<"-">>), q, i + 4) /\ MatchesAt(Text(<<"-">>), q, i + 7)
        slash == \E i \in 1..Len(q) :
                     IsDigitAt(q, i) /\ MatchesAt(Text(<<"/">>), q, i + 1) /\ IsDigitAt(q, i + 2)
        day == \E i \in 1..Len(q), n \in {1, 2} :
                   /\ BoundaryBefore(q, i)
                   /\ \A k \in 0..(n - 1) : IsDigitAt(q, i + k)
                   /\ \/ \E suffix \in {Text(<<"s", "t">>), Text(<<"n", "d">>), Text(<<"r", "d">>), Text(<<"t", "h">>)} :
                             MatchesAt(suffix, q, i + n) /\ BoundaryBefore(q, i + n + 2)
                      \/ BoundaryBefore(q, i + n)
        keyword == \E kw \in {Text(<<"f", "r", "o", "m">>), Text(<<"t", "o">>), Text(<<"t", "h", "r", "o", "u", "g", "h">>), Text(<<"b", "e", "t", "w", "e", "e", "n">>)} : SearchWord(kw, q)
    IN iso \/ slash \/ day \/ keyword

calculate_today(current_date) == Pair(Iso(current_date), Iso(current_date))

calculate_yesterday(current_date) == DatePair(current_date - 1, current_date - 1)

calculate_last_x_days(current_date, num_days) ==
    LET days_to_subtract == num_days - 1
        start_date == current_date - days_to_subtract
    IN DatePair(start_date, current_date)

calculate_month_range(current_date, month_num) ==
    LET year == FromOrdinal(current_date)[1]
        last_day == DaysInMonth(year, month_num)
    IN Pair(<<year, month_num, 1>>, <<year, month_num, last_day>>)

calculate_default_range(current_date) == calculate_last_x_days(current_date, 7)

\* try_pattern_matching returned None
ReturnedNone == [ok |-> TRUE, start |-> None, end |-> None]

\* a variant that looks for "yesterday" before "today"
try_pattern_matching_YesterdayFirst(question, current_date) ==
    LET num_days == extract_last_x_days(question)
        month_num == extract_month_name(question)
    IN IF extract_yesterday(question) THEN calculate_yesterday(current_date)
       ELSE IF extract_today(question) THEN calculate_today(current_date)
       ELSE IF num_days # None THEN calculate_last_x_days(current_date, Val(num_days))
       ELSE IF ~has_explicit_date_reference(question) /\ month_num # None
       THEN calculate_month_range(current_date, Val(month_num))
       ELSE IF ~has_explicit_date_reference(question) /\ month_num = None
       THEN calculate_default_range(current_date)
       ELSE ReturnedNone

try_pattern_matching(question, current_date) ==
    LET num_days == extract_last_x_days(question)
        month_num == extract_month_name(question)
    IN IF extract_today(question) THEN calculate_today(current_date)
       ELSE IF extract_yesterday(question) THEN calculate_yesterday(current_date)
       ELSE IF num_days # None THEN calculate_last_x_days(current_date, Val(num_days))
       ELSE IF ~has_explicit_date_reference(question) /\ month_num # None
       THEN calculate_month_range(current_date, Val(month_num))
       ELSE IF ~has_explicit_date_reference(question) /\ month_num = None
       THEN calculate_default_range(current_date)
       ELSE ReturnedNone

\* questions given to try_pattern_matching: those of test_date_fixes.py, and
\* combinations and near misses of its patterns
PatternQuestions ==
    {Text(<<"L", "a", "s", "t", " ", "7", " ", "d", "a", "y", "s", " ", "a", "t", "t", "r", "i", "b", "u", "t", "i", "o", "n", "_", "s", "a", "l", "e", "s">>),
     Text(<<"S", "h", "o", "w", " ", "m", "e", " ", "R", "O", "I", " ", "f", "o", "r", " ", "l", "a", "s", "t", " ", "3", " ", "d", "a", "y", "s">>),
     Text(<<"P", "a", "s", "t", " ", "1", "4", " ", "d", "a", "y", "s", " ", "a", "d", "_", "s", "a", "l", "e", "s">>),
     Text(<<"P", "a", "s", "t", " ", "1", "8", "0", " ", "d", "a", "y", "s", " ", "t", "o", "t", "a", "l", "_", "s", "a", "l", "e", "s", " ", "d", "a", "t", "a">>),
     Text(<<"s", "a", "l", "e", "s", " ", "f", "o", "r", " ", "t", "h", "e", " ", "l", "a", "s", "t", " ", "0", " ", "d", "a", "y", "s">>),
     Text(<<"p", "a", "s", "t", " ", "0", " ", "d", "a", "y", "s">>),
     Text(<<"l", "a", "s", "t", " ", "1", " ", "d", "a", "y">>),
     Text(<<"l", "a", "s", "t", " ", "8", "0", "0", "0", "0", "0", " ", "d", "a", "y", "s">>),
     Text(<<"L", "A", "S", "T", " ", " ", "3", "0", "\t", "D", "A", "Y", "S">>),
     Text(<<"l", "a", "s", "t", " ", "7", " ", "d", "a", "y", "s", " ", "v", "s", " ", "p", "a", "s", "t", " ", "3", "0", " ", "d", "a", "y", "s">>),
     Text(<<"p", "a", "s", "t", " ", "3", "0", " ", "d", "a", "y", "s", " ", "a", "n", "d", " ", "l", "a", "s", "t", " ", "7", " ", "d", "a", "y", "s">>),
     Text(<<"t", "o", "d", "a", "y", " ", "f", "o", "r", " ", "t", "h", "e", " ", "l", "a", "s", "t", " ", "7", " ", "d", "a", "y", "s">>),
     Text(<<"y", "e", "s", "t", "e", "r", "d", "a", "y", " ", "v", "s", " ", "t", "o", "d", "a", "y">>),
     Text(<<"S", "h", "o", "w", " ", "m", "e", " ", "t", "h", "e", " ", "t", "o", "t", "a", "l", " ", "c", "t", "r", " ", "f", "o", "r", " ", "y", "e", "s", "t", "e", "r", "d", "a", "y">>),
     Text(<<"G", "e", "t", " ", "y", "e", "s", "t", "e", "r", "d", "a", "y", "'", "s", " ", "o", "r", "g", "a", "n", "i", "c", "_", "i", "m", "p", "r", "e", "s", "s", "i", "o", "n", "s">>),
     Text(<<"y", "e", "s", "t", "e", "r", "d", "a", "y", " ", "i", "n", " ", "t", "h", "e", " ", "p", "a", "s", "t", " ", "5", " ", "d", "a", "y", "s">>),
     Text(<<"S", "h", "o", "w", " ", "m", "e", " ", "t", "o", "d", "a", "y", "'", "s", " ", "s", "a", "f", "e", "t", "y", "_", "s", "t", "o", "c", "k">>),
     Text(<<"S", "h", "o", "w", " ", "m", "e", " ", "R", "O", "I", " ", "f", "o", "r", " ", "t", "o", "d", "a", "y">>),
     Text(<<"S", "h", "o", "w", " ", "m", "e", " ", "R", "O", "I">>),
     Text(<<"W", "h", "a", "t", " ", "i", "s", " ", "m", "y", " ", "s", "t", "o", "r", "e", "s", " ", "o", "v", "e", "r", "a", "l", "l", " ", "p", "e", "r", "f", "o", "r", "m", "a", "n", "c", "e">>),
     Text(<<"J", "a", "n", "u", "a", "r", "y", " ", "t", "o", "t", "a", "l", "_", "s", "a", "l", "e", "s">>),
     Text(<<"S", "h", "o", "w", " ", "m", "e", " ", "R", "O", "I", " ", "f", "o", "r", " ", "S", "e", "p", "t", "e", "m", "b", "e", "r">>),
     Text(<<"F", "e", "b", "r", "u", "a", "r", "y", " ", "s", "a", "l", "e", "s">>),
     Text(<<"s", "a", "l", "e", "s", " ", "i", "n", " ", "s", "e", "p", "t">>),
     Text(<<"C", "o", "m", "p", "a", "r", "e", " ", "A", "u", "g", "u", "s", "t", " ", "v", "s", " ", "S", "e", "p", "t", "e", "m", "b", "e", "r">>),
     Text(<<"s", "a", "l", "e", "s", " ", "f", "r", "o", "m", " ", "J", "a", "n", "u", "a", "r", "y", " ", "t", "o", " ", "M", "a", "r", "c", "h">>),
     Text(<<"s", "a", "l", "e", "s", " ", "o", "n", " ", "2", "0", "2", "5", "-", "1", "0", "-", "0", "1">>),
     Text(<<"s", "a", "l", "e", "s", " ", "o", "n", " ", "1", "0", "/", "1">>),
     Text(<<"s", "a", "l", "e", "s", " ", "f", "o", "r", " ", "O", "c", "t", " ", "1", "s", "t">>),
     Text(<<"S", "h", "o", "w", " ", "m", "e", " ", "t", "o", "p", " ", "5", " ", "p", "r", "o", "d", "u", "c", "t", "s">>),
     Text(<<"l", "a", "s", "t", " ", "7", "d", "a", "y", "s">>),
     Text(<<"l", "a", "s", "t", "s", " ", "7", " ", "d", "a", "y", "s">>),
     Text(<<"m", "a", "y", "b", "e", " ", "s", "a", "l", "e", "s">>),
     <<>>,
     Text(<<"t", "o", "d", "a", "y", "i", "s", "h">>),
     Text(<<"D", "e", "c", "e", "m", "b", "e", "r", " ", "2", "0", "2", "5", " ", "s", "a", "l", "e", "s">>),
     Text(<<"y", "e", "s", "t", "e", "r", "d", "a", "y", "s", " ", "s", "a", "l", "e", "s", " ", "l", "a", "s", "t", " ", "0", " ", "d", "a", "y", "s">>),
     \* "last", U+2003 (em space), U+0663 (arabic-indic digit three), " days"; "today", U+00E9, " sales";
     \* U+0130 (capital I with dot above), " sales in MA", U+0130
     Text(<<"l", "a", "s", "t">>) \o <<8195, 1635>> \o Text(<<" ", "d", "a", "y", "s">>),
     Text(<<"t", "o", "d", "a", "y">>) \o <<233>> \o Text(<<" ", "s", "a", "l", "e", "s">>),
     <<304>> \o Text(<<" ", "s", "a", "l", "e", "s", " ", "i", "n", " ", "M", "A">>) \o <<304>>}

\* current_date values: the date of test_date_fixes.py, the day after a leap day
\* and the first days of a year
PatternAnchors == {<<2025, 12, 22>>, <<2024, 3, 1>>, <<2025, 1, 3>>}

PatternInit ==
    /\ \E q \in PatternQuestions : state = [question |-> q]
    /\ \E a \in PatternAnchors : clock = [utc |-> ToOrdinal(a), pst |-> ToOrdinal(a)]
    /\ pc = "try_pattern_matching"
    /\ last = "request"
    /\ normalizer_calls = 0
    /\ llm_calls = 0
    /\ answer = None
    /\ call = NoCall
    /\ _current_state = NoState

\* one call try_pattern_matching(question, current_date)
TryPatternMatching ==
    /\ pc = "try_pattern_matching"
    /\ \E r \in {try_pattern_matching(state["question"], clock.utc)} :
           /\ call' = [fn |-> "try_pattern_matching", result |-> r]
           /\ last' = IF ~r.ok THEN "pattern_raised"
                      ELSE IF r = ReturnedNone THEN "pattern_none" ELSE "pattern_pair"
    /\ pc' = "returned"
    /\ UNCHANGED <<state, clock, normalizer_calls, llm_calls, answer>>
    /\ UNCHANGED _current_state

PatternNext == TryPatternMatching

PatternSpec == PatternInit /\ [][PatternNext]_vars

\* a call of try_pattern_matching has returned or raised
PatternCalled == pc = "returned" /\ call.fn = "try_pattern_matching"

\* one of the first three patterns (today, yesterday, last/past N days) matches
FirstThreeMatch(q) ==
    extract_today(q) \/ extract_yesterday(q) \/ extract_last_x_days(q) # None

\* the cases of the priority order that do not depend on a day count
PatternCasesWithoutCount(q, cur, r) ==
    LET y == FromOrdinal(cur)[1]
        m == extract_month_name(q)
    IN /\ extract_today(q) => r = Pair(FromOrdinal(cur), FromOrdinal(cur))
       /\ ~extract_today(q) /\ extract_yesterday(q) =>
              r = Pair(FromOrdinal(cur - 1), FromOrdinal(cur - 1))
       /\ ~FirstThreeMatch(q) /\ ~has_explicit_date_reference(q) /\ m # None =>
              r = Pair(<<y, Val(m), 1>>, <<y, Val(m), MonthLength(y, Val(m))>>)
       /\ ~FirstThreeMatch(q) /\ ~has_explicit_date_reference(q) /\ m = None =>
              r = Pair(FromOrdinal(cur - 6), FromOrdinal(cur))
       /\ r = ReturnedNone <=> (~FirstThreeMatch(q) /\ has_explicit_date_reference(q))

\* the result is the pair (anchor - (N - 1), anchor)
IsLastNDays(r, cur, n) ==
    /\ r.ok /\ r.start # None
    /\ ToOrdinal(r.start) = cur - (n - 1)
    /\ r.end = FromOrdinal(cur)

\* the call is decided by the "last/past N days" pattern, with this N
DaysPatternDecides(q) ==
    ~extract_today(q) /\ ~extract_yesterday(q) /\ extract_last_x_days(q) # None

\* C23 (as stated): try_pattern_matching applies today > yesterday > "last/past N
\* days" > bare month name > default; for "last/past N days" it returns
\* (anchor - (N - 1), anchor) for every N; for a bare month name that month of the
\* anchor's year; with no date reference the 7 days ending on the anchor; and None
\* exactly when none of the first three patterns matches and the question has an
\* explicit date reference.
C23_PatternPriorityAsStated ==
    PatternCalled =>
        LET q == state["question"]
            r == call.result
        IN /\ PatternCasesWithoutCount(q, clock.utc, r)
           /\ DaysPatternDecides(q) =>
                  IsLastNDays(r, clock.utc, Val(extract_last_x_days(q)))

\* C23 (amended): the same priority order and results, where "last/past N days"
\* returns (anchor - (N - 1), anchor) when that start day exists in the calendar,
\* and the call raises when it does not (N - 1 reaches back before 0001-01-01).
C23_PatternPriority ==
    PatternCalled =>
        LET q == state["question"]
            r == call.result
            n == Val(extract_last_x_days(q))
        IN /\ PatternCasesWithoutCount(q, clock.utc, r)
           /\ DaysPatternDecides(q) =>
                  IF clock.utc - (n - 1) >= ToOrdinal(DateMin)
                  THEN IsLastNDays(r, clock.utc, n)
                  ELSE ~r.ok

\* "yesterday vs today" has both words: the pair is today's
C23_Witness ==
    /\ PatternCalled
    /\ extract_today(state["question"]) /\ extract_yesterday(state["question"])
    /\ call.result = Pair(FromOrdinal(clock.utc), FromOrdinal(clock.utc))

\* C30: for every question and every anchor date, whenever try_pattern_matching
\* returns a pair (start, end), start <= end holds, for every day count N that the
\* "last N days" / "past N days" pattern can capture, N = 0 included.
C30_PatternRangesAreOrdered ==
    (PatternCalled /\ call.result.ok /\ call.result # ReturnedNone) =>
        node2_date_logic(call.result.start, call.result.end)

-----------------------------------------------------------------------------
(* Two utterances in metrics_query_handler at the same time                *)

\* the states of the two utterances when they reach metrics_query_handler_node
HandlerRequests ==
    <<[date_start |-> <<2025, 12, 16>>, date_end |-> <<2025, 12, 22>>,
       compare_date_start |-> <<2025, 12, 9>>, compare_date_end |-> <<2025, 12, 15>>,
       response |-> <<>>],
      [date_start |-> <<2025, 9, 1>>, date_end |-> <<2025, 9, 30>>,
       compare_date_start |-> <<2025, 8, 1>>, compare_date_end |-> <<2025, 8, 31>>,
       response |-> <<>>]>>

Executions == {1, 2}

\* both executions have been classified as metrics_query and routed to
\* metrics_query_handler (the only handler with a module-level _current_state that
\* classify_question_node routes to); the module-level names are the empty dict
ConcurrentInit ==
    /\ state = [requests |-> HandlerRequests]
    /\ pc = [u \in Executions |-> "metrics_query_handler"]
    /\ clock = [utc |-> ToOrdinal(<<2025, 12, 22>>), pst |-> ToOrdinal(<<2025, 12, 22>>)]
    /\ last = "classified"
    /\ normalizer_calls = 0
    /\ llm_calls = 0
    /\ answer = None
    /\ call = [fn |-> "metrics_api", issued |-> {}]
    /\ _current_state = NoState

\* one call of metrics_api issued by a tool of execution u's agent
MetricsCall(u, date_start, date_end) == [by |-> u, date_start |-> date_start, date_end |-> date_end]

\* the date_start, date_end arguments (MetricsInput) the agent's model passes to
\* get_simple_metrics: the model reads them off its own prompt (lines 86-89), which
\* is formatted from the handler's parameter state; it may ask for the whole period
\* of the prompt or for a part of it, here its last day
MetricsInput(u) ==
    LET s == state.requests[u]
    IN {[date_start |-> s.date_start, date_end |-> s.date_end],
        [date_start |-> s.date_end, date_end |-> s.date_end]}

\* the requests and the module-level name after execution u's handler has stored
\* its response (line 93): the name sees it when it is bound to u's state
Responded(u, node, outcome) ==
    LET r == agent_handler_node(state.requests[u], outcome)
    IN /\ state' = [state EXCEPT !.requests[u] = r.state]
       /\ _current_state' = IF _current_state[node] = Some(state.requests[u])
                            THEN [_current_state EXCEPT ![node] = Some(r.state)]
                            ELSE _current_state
       /\ pc' = [pc EXCEPT ![u] = IF r.raised THEN "raised" ELSE "END"]
       /\ last' = IF r.raised THEN "handler_raised" ELSE "handled"

\* metrics_query_handler_node, lines 29-30: global _current_state = state; the node
\* runs without suspension up to await agent.ainvoke (line 85)
MetricsHandlerEnter(u) ==
    /\ pc[u] = "metrics_query_handler"
    /\ _current_state' = [_current_state EXCEPT !.metrics_query_handler = Some(state.requests[u])]
    /\ pc' = [pc EXCEPT ![u] = "metrics_agent"]
    /\ last' = "metrics_entered"
    /\ UNCHANGED <<state, clock, normalizer_calls, llm_calls, answer, call>>

\* get_ads_metrics (lines 39-53), a tool the node defines and does not give to its
\* agent: it takes no arguments and reads the dates from the module-level name
GetAdsMetrics(u) ==
    /\ pc[u] = "metrics_agent"
    /\ LET s == Val(_current_state.metrics_query_handler)
       IN call' = [call EXCEPT !.issued = @ \cup {MetricsCall(u, s.date_start, s.date_end)}]
    /\ last' = "metrics_fetched"
    /\ UNCHANGED <<state, pc, clock, normalizer_calls, llm_calls, answer>>
    /\ UNCHANGED _current_state

\* the agent is built with tools=[get_simple_metrics] (lines 77-81): the tool calls
\* metrics_api with the date_start, date_end it receives as arguments and reads no
\* module-level name
GetSimpleMetrics(u) ==
    /\ pc[u] = "metrics_agent"
    /\ \E args \in MetricsInput(u) :
           call' = [call EXCEPT !.issued = @ \cup {MetricsCall(u, args.date_start, args.date_end)}]
    /\ last' = "metrics_fetched"
    /\ UNCHANGED <<state, pc, clock, normalizer_calls, llm_calls, answer>>
    /\ UNCHANGED _current_state

\* the agent run is over: line 93 stores the response and the handler returns
MetricsHandlerReturn(u) ==
    /\ pc[u] = "metrics_agent"
    /\ \E outcome \in AgentOutcomes : Responded(u, "metrics_query_handler", outcome)
    /\ UNCHANGED <<clock, normalizer_calls, llm_calls, answer, call>>

ConcurrentNext ==
    \E u \in Executions :
        \/ MetricsHandlerEnter(u)
        \/ GetSimpleMetrics(u)
        \/ MetricsHandlerReturn(u)

ConcurrentSpec == ConcurrentInit /\ [][ConcurrentNext]_vars

\* the executions that have run lines 29-30 of the handler
Entered == {u \in Executions : pc[u] # "metrics_query_handler"}

-----------------------------------------------------------------------------
(* The order of the stages                                                 *)

\* C25: in every execution each pass of the loop runs the label extractor, then the
\* date calculation, then the validator, in that order with none skipped; the
\* classifier runs once, only after a validator run, and is followed by exactly one
\* handler, after which the execution ends.
C25_StagesRunInOrder ==
    [][/\ pc = "label_normalizer" => pc' = "message_analyzer"
       /\ pc = "message_analyzer" =>
              /\ pc' = "extractor_evaluator"
              /\ Get(state', "date_start") # None
              /\ Get(state', "date_end") # None
       /\ pc = "extractor_evaluator" => pc' \in {"label_normalizer", "classifier"}
       /\ pc' = "classifier" => pc = "extractor_evaluator"
       /\ pc = "classifier" => pc' \in HandlerNodes
       /\ pc' \in HandlerNodes => pc = "classifier"
       /\ pc \in AgentHandlers => pc' = Awaiting(pc)
       /\ pc \in (HandlerNodes \ AgentHandlers) \cup AwaitingNodes => pc' \in {"END", "raised"}
       /\ pc' = "END" => pc \in HandlerNodes \cup AwaitingNodes]_vars

-----------------------------------------------------------------------------
(* A session: several utterances under one thread_id                       *)

\* utterances sent in one session
MaxUtterances == 2

\* the utterances of a session: a confirmation first, then a question
SessionUtterances ==
    <<Text(<<"y", "e", "s", "\r", "\n">>),
      Text(<<"W", "h", "a", "t", " ", "i", "s", " ", "m", "y", " ", "A", "C", "O", "S", "?">>)>>

\* the first request of a session: the checkpointer holds nothing for the thread
SessionInit ==
    /\ state = InitialState(SessionUtterances[1], None, None)
    /\ pc = "label_normalizer"
    /\ clock = [utc |-> ToOrdinal(<<2025, 12, 22>>), pst |-> ToOrdinal(<<2025, 12, 22>>)]
    /\ last = "request"
    /\ normalizer_calls = 0
    /\ llm_calls = 0
    /\ answer = None
    /\ call = [fn |-> "session", utterance |-> 1]
    /\ _current_state = NoState

\* graph.ainvoke(initial_state, config) on a thread that has a checkpoint: the keys
\* of initial_state replace the checkpointed values, every other key of the
\* checkpoint is kept
NewRequest ==
    /\ pc \in {"END", "raised"}
    /\ call.utterance < MaxUtterances
    /\ state' = InitialState(SessionUtterances[Min(call.utterance + 1, Len(SessionUtterances))],
                              None, None) @@ state
    /\ pc' = "label_normalizer"
    /\ last' = "request"
    /\ normalizer_calls' = 0
    /\ llm_calls' = 0
    /\ answer' = None
    /\ call' = [call EXCEPT !.utterance = @ + 1]
    /\ UNCHANGED clock
    /\ UNCHANGED _current_state

SessionNext == Next \/ NewRequest

SessionSpec == SessionInit /\ [][SessionNext]_vars

\* the text the evaluator leaves when it accepts without judging

\* the extractor's prompt carries feedback: label_normalizer_node, lines 117-120
FeedbackInPrompt(s) ==
    TruthySeq(Get(s, "_normalizer_feedback")) /\ RetriesOf(s) > 0

\* C26: every utterance of a session starts its retry loop with retry count 0 and
\* with no feedback given to the extractor, and its first extraction is judged by
\* the validator, whatever the previous utterance of the session ended with.
C26_EachUtteranceStartsFresh ==
    /\ (pc = "label_normalizer" /\ last = "request") =>
           /\ RetriesOf(state) = 0
           /\ ~FeedbackInPrompt(state)
    /\ (normalizer_calls = 1
        /\ last \in {"validator_accepted", "validator_rejected", "validator_raised"}) =>
           Get(state, "_normalizer_feedback") # MaxRetriesExceeded

-----------------------------------------------------------------------------
(* Categories and their handlers                                           *)

\* C27: every category that classify_question_node emits has its own entry in the
\* routing table of route_by_question_type; no category of the classifier reaches
\* the default handler through the fallback.
C27_EveryCategoryHasAnEntry ==
    last = "classified" =>
        /\ state["question_type"] \in RoutedCategories
        /\ pc = route_by_question_type(state)
        /\ pc = "other_handler" => state["question_type"] = "other"

-----------------------------------------------------------------------------
(* The hardcoded answers                                                   *)

\* every entry of HARDCODED_QUESTIONS as written, in capitals, capitalised with
\* surrounding whitespace and after a tab; and two questions that are no entry
HardcodedUtterances ==
    {Text(<<"s", "h", "o", "w", " ", "m", "e", " ", "p", "e", "r", "f", "o", "r", "m", "a", "n", "c", "e", " ", "i", "n", "s", "i", "g", "h", "t", "s">>),
     Text(<<"S", "H", "O", "W", " ", "M", "E", " ", "P", "E", "R", "F", "O", "R", "M", "A", "N", "C", "E", " ", "I", "N", "S", "I", "G", "H", "T", "S">>),
     Text(<<" ", " ", "S", "h", "o", "w", " ", "m", "e", " ", "p", "e", "r", "f", "o", "r", "m", "a", "n", "c", "e", " ", "i", "n", "s", "i", "g", "h", "t", "s", " ", "\n">>),
     Text(<<"\t", "s", "h", "o", "w", " ", "m", "e", " ", "p", "e", "r", "f", "o", "r", "m", "a", "n", "c", "e", " ", "i", "n", "s", "i", "g", "h", "t", "s">>),
     Text(<<"g", "i", "v", "e", " ", "m", "e", " ", "p", "e", "r", "f", "o", "r", "m", "a", "n", "c", "e", " ", "i", "n", "s", "i", "g", "h", "t", "s">>),
     Text(<<"G", "I", "V", "E", " ", "M", "E", " ", "P", "E", "R", "F", "O", "R", "M", "A", "N", "C", "E", " ", "I", "N", "S", "I", "G", "H", "T", "S">>),
     Text(<<" ", " ", "G", "i", "v", "e", " ", "m", "e", " ", "p", "e", "r", "f", "o", "r", "m", "a", "n", "c", "e", " ", "i", "n", "s", "i", "g", "h", "t", "s", " ", "\n">>),
     Text(<<"\t", "g", "i", "v", "e", " ", "m", "e", " ", "p", "e", "r", "f", "o", "r", "m", "a", "n", "c", "e", " ", "i", "n", "s", "i", "g", "h", "t", "s">>),
     Text(<<"w", "h", "a", "t", " ", "w", "a", "s", " ", "t", "h", "e", " ", "h", "i", "g", "h", "e", "s", "t", " ", "p", "e", "r", "f", "o", "r", "m", "a", "n", "c", "e", " ", "d", "a", "y", "?">>),
     Text(<<"W", "H", "A", "T", " ", "W", "A", "S", " ", "T", "H", "E", " ", "H", "I", "G", "H", "E", "S", "T", " ", "P", "E", "R", "F", "O", "R", "M", "A", "N", "C", "E", " ", "D", "A", "Y", "?">>),
     Text(<<" ", " ", "W", "h", "a", "t", " ", "w", "a", "s", " ", "t", "h", "e", " ", "h", "i", "g", "h", "e", "s", "t", " ", "p", "e", "r", "f", "o", "r", "m", "a", "n", "c", "e", " ", "d", "a", "y", "?", " ", "\n">>),
     Text(<<"\t", "w", "h", "a", "t", " ", "w", "a", "s", " ", "t", "h", "e", " ", "h", "i", "g", "h", "e", "s", "t", " ", "p", "e", "r", "f", "o", "r", "m", "a", "n", "c", "e", " ", "d", "a", "y", "?">>),
     Text(<<"w", "h", "a", "t", " ", "d", "a", "y", " ", "h", "a", "d", " ", "t", "h", "e", " ", "b", "e", "s", "t", " ", "p", "e", "r", "f", "o", "r", "m", "a", "n", "c", "e", "?">>),
     Text(<<"W", "H", "A", "T", " ", "D", "A", "Y", " ", "H", "A", "D", " ", "T", "H", "E", " ", "B", "E", "S", "T", " ", "P", "E", "R", "F", "O", "R", "M", "A", "N", "C", "E", "?">>),
     Text(<<" ", " ", "W", "h", "a", "t", " ", "d", "a", "y", " ", "h", "a", "d", " ", "t", "h", "e", " ", "b", "e", "s", "t", " ", "p", "e", "r", "f", "o", "r", "m", "a", "n", "c", "e", "?", " ", "\n">>),
     Text(<<"\t", "w", "h", "a", "t", " ", "d", "a", "y", " ", "h", "a", "d", " ", "t", "h", "e", " ", "b", "e", "s", "t", " ", "p", "e", "r", "f", "o", "r", "m", "a", "n", "c", "e", "?">>),
     Text(<<"c", "a", "n", " ", "y", "o", "u", " ", "c", "o", "m", "p", "a", "r", "e", " ", "m", "y", " ", "s", "t", "o", "r", "e", " ", "p", "e", "r", "f", "o", "r", "m", "a", "n", "c", "e", " ", "i", "n", " ", "a", "u", "g", "u", "s", "t", " ", "o", "v", "e", "r", " ", "a", "u", "g", "u", "s", "t", " ", "t", "o", " ", "s", "e", "p", "t", "e", "m", "b", "e", "r", "?">>),
     Text(<<"C", "A", "N", " ", "Y", "O", "U", " ", "C", "O", "M", "P", "A", "R", "E", " ", "M", "Y", " ", "S", "T", "O", "R", "E", " ", "P", "E", "R", "F", "O", "R", "M", "A", "N", "C", "E", " ", "I", "N", " ", "A", "U", "G", "U", "S", "T", " ", "O", "V", "E", "R", " ", "A", "U", "G", "U", "S", "T", " ", "T", "O", " ", "S", "E", "P", "T", "E", "M", "B", "E", "R", "?">>),
     Text(<<" ", " ", "C", "a", "n", " ", "y", "o", "u", " ", "c", "o", "m", "p", "a", "r", "e", " ", "m", "y", " ", "s", "t", "o", "r", "e", " ", "p", "e", "r", "f", "o", "r", "m", "a", "n", "c", "e", " ", "i", "n", " ", "a", "u", "g", "u", "s", "t", " ", "o", "v", "e", "r", " ", "a", "u", "g", "u", "s", "t", " ", "t", "o", " ", "s", "e", "p", "t", "e", "m", "b", "e", "r", "?", " ", "\n">>),
     Text(<<"\t", "c", "a", "n", " ", "y", "o", "u", " ", "c", "o", "m", "p", "a", "r", "e", " ", "m", "y", " ", "s", "t", "o", "r", "e", " ", "p", "e", "r", "f", "o", "r", "m", "a", "n", "c", "e", " ", "i", "n", " ", "a", "u", "g", "u", "s", "t", " ", "o", "v", "e", "r", " ", "a", "u", "g", "u", "s", "t", " ", "t", "o", " ", "s", "e", "p", "t", "e", "m", "b", "e", "r", "?">>),
     Text(<<"c", "a", "n", " ", "y", "o", "u", " ", "s", "h", "o", "w", " ", "m", "e", " ", "s", "o", "m", "e", " ", "i", "n", "s", "i", "g", "h", "t", "s", " ", "a", "b", "o", "u", "t", " ", "t", "h", "i", "s", " ", "p", "r", "o", "d", "u", "c", "t", " ", "f", "r", "o", "m", " ", "o", "c", "t", " ", "1", " ", "t", "o", " ", "o", "c", "t", " ", "3", "0">>),
     Text(<<"C", "A", "N", " ", "Y", "O", "U", " ", "S", "H", "O", "W", " ", "M", "E", " ", "S", "O", "M", "E", " ", "I", "N", "S", "I", "G", "H", "T", "S", " ", "A", "B", "O", "U", "T", " ", "T", "H", "I", "S", " ", "P", "R", "O", "D", "U", "C", "T", " ", "F", "R", "O", "M", " ", "O", "C", "T", " ", "1", " ", "T", "O", " ", "O", "C", "T", " ", "3", "0">>),
     Text(<<" ", " ", "C", "a", "n", " ", "y", "o", "u", " ", "s", "h", "o", "w", " ", "m", "e", " ", "s", "o", "m", "e", " ", "i", "n", "s", "i", "g", "h", "t", "s", " ", "a", "b", "o", "u", "t", " ", "t", "h", "i", "s", " ", "p", "r", "o", "d", "u", "c", "t", " ", "f", "r", "o", "m", " ", "o", "c", "t", " ", "1", " ", "t", "o", " ", "o", "c", "t", " ", "3", "0", " ", "\n">>),
     Text(<<"\t", "c", "a", "n", " ", "y", "o", "u", " ", "s", "h", "o", "w", " ", "m", "e", " ", "s", "o", "m", "e", " ", "i", "n", "s", "i", "g", "h", "t", "s", " ", "a", "b", "o", "u", "t", " ", "t", "h", "i", "s", " ", "p", "r", "o", "d", "u", "c", "t", " ", "f", "r", "o", "m", " ", "o", "c", "t", " ", "1", " ", "t", "o", " ", "o", "c", "t", " ", "3", "0">>),
     Text(<<"y", "e", "s">>),
     Text(<<"Y", "E", "S">>),
     Text(<<" ", " ", "Y", "e", "s", " ", "\n">>),
     Text(<<"\t", "y", "e", "s">>),
     Text(<<"W", "h", "a", "t", " ", "i", "s", " ", "m", "y", " ", "A", "C", "O", "S", "?">>),
     Text(<<"y", "e", "s", " ", "p", "l", "e", "a", "s", "e">>),
     \* "yes" between U+2003 and U+3000; "YE" and U+017F (long s)
     <<8195>> \o Text(<<"y", "e", "s">>) \o <<12288>>,
     Text(<<"Y", "E">>) \o <<383>>}

HardcodedInit ==
    /\ \E q \in HardcodedUtterances, it \in {None, Some("chat")} :
           state = ClassifierEntry(q, it, None, None, None)
    /\ pc = "classifier"
    /\ clock = [utc |-> ToOrdinal(<<2025, 12, 22>>), pst |-> ToOrdinal(<<2025, 12, 22>>)]
    /\ last = "validator_accepted"
    /\ normalizer_calls = 1
    /\ llm_calls = 0
    /\ answer = None
    /\ call = NoCall
    /\ _current_state = NoState

\* node "hardcoded_response", then END
HardcodedNext == Classifier \/ HardcodedResponse

HardcodedSpec == HardcodedInit /\ [][HardcodedNext]_vars

\* C28: every utterance that the classifier classifies as hardcoded (every entry of
\* HARDCODED_QUESTIONS, in any letter case and with surrounding whitespace) receives
\* a pre-defined answer from hardcoded_response_node, never the text "I'm not sure
\* how to answer that question".
C28_HardcodedQuestionsAreAnswered ==
    last = "hardcoded_answered" =>
        /\ state["question_type"] = "hardcoded"
        /\ state["response"] \in {AugustToSeptemberAnswer, PerformanceInsightsAnswer,
                                  HighestDayAnswer}

-----------------------------------------------------------------------------
(* The date calculation stage when the comparison range cannot be resolved *)

\* comparison labels with the metadata the extractor supplied for them: past_days
\* without a day count, explicit_date without a date, a quarter, and a month
ComparisonLabels ==
    {<<"past_days", None>>, <<"explicit_date", None>>, <<"q1", None>>,
     <<"past_days", Some(14)>>, <<"past_days", Some(800000)>>, <<"september", None>>}

\* extraction records: every primary label with its metadata, and a comparison
ComparisonExtractions ==
    {Extraction(l, l, Some(c[1]), Some(c[1]),
                Some(<<2025, 12, 1>>), Some(<<2025, 12, 1>>), None, None,
                Some(23), c[2], None) :
         l \in DateLabelLiteral, c \in ComparisonLabels}

ComparisonStageInit ==
    /\ clock \in PipelineClocks
    /\ \E e \in ComparisonExtractions :
           state = label_normalizer_node(InitialState(CompareAugustVsSeptember, None, None),
                                         ExtractorReturns(e), clock.pst)
    /\ pc = "date_calculator"
    /\ last = "extract_returned"
    /\ normalizer_calls = 1
    /\ llm_calls = 0
    /\ answer = None
    /\ call = NoCall
    /\ _current_state = NoState

ComparisonStageNext == DateCalculation

ComparisonStageSpec == ComparisonStageInit /\ [][ComparisonStageNext]_vars

\* C29: in date_calculator_node, a failure while resolving the comparison range (a
\* comparison label past_days without a comparison day count) leaves the primary
\* date_start/date_end equal to the values resolved from the primary labels; only
\* the comparison pair is cleared.
C29_ComparisonFailureKeepsPrimary ==
    LET p1 == calculate(clock.utc, Val(state["_date_start_label"]),
                        state["_explicit_date_start"], state["_custom_days_count"])
        p2 == calculate(clock.utc, Val(state["_date_end_label"]),
                        state["_explicit_date_end"], state["_custom_days_count"])
        c1 == calculate(clock.utc, Val(state["_compare_date_start_label"]),
                        state["_explicit_compare_start"], state["_custom_compare_days_count"])
        c2 == calculate(clock.utc, Val(state["_compare_date_end_label"]),
                        state["_explicit_compare_end"], state["_custom_compare_days_count"])
    IN (last = "dates_calculated" /\ p1.ok /\ p2.ok /\ ~(c1.ok /\ c2.ok)) =>
           /\ state["date_start"] = Some(p1.start)
           /\ state["date_end"] = Some(p2.end)
           /\ state["compare_date_start"] = None
           /\ state["compare_date_end"] = None
=============================================================================
